---------------------------- MODULE Spec2Model ----------------------------
(***************************************************************************)
(* Model of the disease-data query engine of the Autoabdb backend:         *)
(* buildCombinedQuery, the priorityNum aggregation stage, getAllEntries,   *)
(* searchEntries, advancedSearch and the other listing endpoints over the  *)
(* diseaseData collection.                                                 *)
(*                                                                         *)
(* Strings are sequences of one-character strings, so that trimming, case  *)
(* folding, escaping and pattern matching are computed character by        *)
(* character as the JavaScript and the store do.                           *)
(***************************************************************************)
EXTENDS Integers, Sequences, FiniteSets, TLC

VARIABLES
    store,      \* the diseaseData collection, in insertion (natural) order
    request,    \* the request being served, NoRequest when idle
    response,   \* its response, NoResponse until the handler has run
    qParams,    \* searchParams handed to buildCombinedQuery
    qResult,    \* what buildCombinedQuery returned for qParams
    pnIn,       \* a stored priority value fed to the priorityNum expression
    pnOut,      \* the priorityNum computed for pnIn
    submissions, \* the diseaseSubmission collection; a document's id is its position
    reviews,    \* the approve / reject request each reviewer has in progress
    reading,    \* a getAllEntries request between its two reads of the store
    biomarkers, \* the biomarker collection, newest first
    articles,   \* the article collection; a document's id is its position
    viewers,    \* the getArticleById request each visitor has in progress
    viewEvents  \* per article, the view events that have been answered

vars == <<store, request, response, qParams, qResult, pnIn, pnOut, submissions, reviews,
          reading, biomarkers, articles, viewers, viewEvents>>

\* The super admins whose approve and reject requests the server handles
\* concurrently
Reviewers == {"r1", "r2"}

\* No request of the reviewer is in progress. pc is the position of the
\* handler, created the position in diseaseData of the record it created
\* (0 for none), http the status of its response
IdleReview == [pc |-> "idle", op |-> "none", id |-> 0, created |-> 0, http |-> 0]

NoSubmissions ==
    /\ submissions = <<>>
    /\ reviews = [w \in Reviewers |-> IdleReview]

\* The visitors whose getArticleById requests the server handles concurrently
Visitors == {"v1", "v2"}

MaxArticles == 1

IdleReading == [pc |-> "idle"]
IdleViewer == [pc |-> "idle", id |-> 0, views |-> 0, status |-> "", http |-> 0]

\* Nothing of the biomarker and article endpoints, no read in progress
NoReading == reading = IdleReading
NoBiomarkers == biomarkers = <<>>
NoArticles ==
    /\ articles = <<>>
    /\ viewers = [v \in Visitors |-> IdleViewer]
    /\ viewEvents = [i \in 1..MaxArticles |-> 0]

-----------------------------------------------------------------------------
(* Characters and strings *)

Uppers == <<"A","B","C","D","E","F","G","H","I","J","K","L","M",
            "N","O","P","Q","R","S","T","U","V","W","X","Y","Z">>
Lowers == <<"a","b","c","d","e","f","g","h","i","j","k","l","m",
            "n","o","p","q","r","s","t","u","v","w","x","y","z">>
Digits == <<"0","1","2","3","4","5","6","7","8","9">>

\* The characters of the model in ASCII order (binary string comparison).
Ascii == <<" ", "(", ")", "+", "-", ".", "/">> \o Digits \o Uppers
         \o <<"\\", "^">> \o Lowers

IndexOf(seq, c) == CHOOSE i \in 1..Len(seq) : seq[i] = c
InSeq(seq, c) == \E i \in 1..Len(seq) : seq[i] = c

Code(c) == IndexOf(Ascii, c)

IsDigit(c) == InSeq(Digits, c)
DigitVal(c) == IndexOf(Digits, c) - 1

\* String.prototype.toLowerCase, per character
LowerChar(c) == IF InSeq(Uppers, c) THEN Lowers[IndexOf(Uppers, c)] ELSE c
\* String.prototype.toUpperCase, per character
UpperChar(c) == IF InSeq(Lowers, c) THEN Uppers[IndexOf(Lowers, c)] ELSE c

ToLowerCase(s) == [i \in 1..Len(s) |-> LowerChar(s[i])]
ToUpperCase(s) == [i \in 1..Len(s) |-> UpperChar(s[i])]

IsSpace(c) == c = " "

RECURSIVE TrimStart(_)
TrimStart(s) == IF s # <<>> /\ IsSpace(Head(s)) THEN TrimStart(Tail(s)) ELSE s

RECURSIVE TrimEnd(_)
TrimEnd(s) ==
    IF s # <<>> /\ IsSpace(s[Len(s)]) THEN TrimEnd(SubSeq(s, 1, Len(s) - 1)) ELSE s

\* String.prototype.trim
Trim(s) == TrimEnd(TrimStart(s))

\* String.prototype.includes
Includes(s, sub) ==
    \E i \in 1..(Len(s) - Len(sub) + 1) : SubSeq(s, i, i + Len(sub) - 1) = sub

\* Binary (code point) string order, as the store's $sort compares strings.
RECURSIVE StrLess(_, _)
StrLess(a, b) ==
    IF b = <<>> THEN FALSE
    ELSE IF a = <<>> THEN TRUE
    ELSE IF Code(Head(a)) # Code(Head(b)) THEN Code(Head(a)) < Code(Head(b))
    ELSE StrLess(Tail(a), Tail(b))

-----------------------------------------------------------------------------
(* Regular expressions *)

\* The character class of .replace(/[.*+?^${}()|[\]\\]/g, '\\$&')
MetaChars == {".", "*", "+", "?", "^", "$", "{", "}", "(", ")", "|", "[", "]", "\\"}

\* Mutant of EscapeRegex: the text is taken as the pattern source
EscapeRegexNone(s) == s

RECURSIVE EscapeRegex(_)
EscapeRegex(s) ==
    IF s = <<>> THEN <<>>
    ELSE (IF Head(s) \in MetaChars THEN <<"\\", Head(s)>> ELSE <<Head(s)>>)
         \o EscapeRegex(Tail(s))

\* The tokens of a pattern source: an escaped character is a literal, "." is
\* the wildcard, "^" and "$" are anchors, "(" and ")" delimit a group; the
\* other operators do not occur in the patterns of the model.
RECURSIVE Tokens(_)
Tokens(src) ==
    IF src = <<>> THEN <<>>
    ELSE IF Head(src) = "\\"
         THEN IF Len(src) >= 2
              THEN <<[k |-> "lit", c |-> src[2]]>> \o Tokens(SubSeq(src, 3, Len(src)))
              ELSE <<[k |-> "bad", c |-> "\\"]>>
    ELSE IF Head(src) = "." THEN <<[k |-> "any", c |-> "."]>> \o Tokens(Tail(src))
    ELSE IF Head(src) = "^" THEN <<[k |-> "bol", c |-> "^"]>> \o Tokens(Tail(src))
    ELSE IF Head(src) = "$" THEN <<[k |-> "eol", c |-> "$"]>> \o Tokens(Tail(src))
    ELSE IF Head(src) = "(" THEN <<[k |-> "open", c |-> "("]>> \o Tokens(Tail(src))
    ELSE IF Head(src) = ")" THEN <<[k |-> "close", c |-> ")"]>> \o Tokens(Tail(src))
    ELSE <<[k |-> "lit", c |-> Head(src)]>> \o Tokens(Tail(src))

RECURSIVE Balanced(_, _)
Balanced(toks, depth) ==
    IF toks = <<>> THEN depth = 0
    ELSE IF Head(toks).k = "open" THEN Balanced(Tail(toks), depth + 1)
    ELSE IF Head(toks).k = "close" THEN depth > 0 /\ Balanced(Tail(toks), depth - 1)
    ELSE Balanced(Tail(toks), depth)

\* new RegExp(src) throws a SyntaxError on a dangling escape or an unbalanced group.
RegexValid(src) ==
    LET toks == Tokens(src)
    IN  /\ \A i \in 1..Len(toks) : toks[i].k # "bad"
        /\ Balanced(toks, 0)

\* Does the token sequence match the input starting at position pos (1-based)?
\* Groups without alternation or quantifier match what their content matches.
RECURSIVE MatchAt(_, _, _)
MatchAt(toks, input, pos) ==
    IF toks = <<>> THEN TRUE
    ELSE LET t == Head(toks)
         IN  CASE t.k \in {"open", "close"} -> MatchAt(Tail(toks), input, pos)
               [] t.k = "bol" -> pos = 1 /\ MatchAt(Tail(toks), input, pos)
               [] t.k = "eol" -> pos = Len(input) + 1 /\ MatchAt(Tail(toks), input, pos)
               [] t.k = "any" -> pos <= Len(input) /\ MatchAt(Tail(toks), input, pos + 1)
               [] OTHER -> /\ pos <= Len(input)
                           /\ LowerChar(input[pos]) = LowerChar(t.c)
                           /\ MatchAt(Tail(toks), input, pos + 1)

\* regex.test(input) for new RegExp(src, 'i'): an unanchored, case-insensitive search
RegexTest(src, input) ==
    \E pos \in 1..(Len(input) + 1) : MatchAt(Tokens(src), input, pos)

-----------------------------------------------------------------------------
(* Values *)

\* A stored (BSON) value: a missing field, null, a string, or a number.
\* A number is the decimal m / 10^e.
Missing == [t |-> "missing", s |-> <<>>, m |-> 0, e |-> 0]
Null == [t |-> "null", s |-> <<>>, m |-> 0, e |-> 0]
Str(s) == [t |-> "string", s |-> s, m |-> 0, e |-> 0]
Num(m, e) == [t |-> "double", s |-> <<>>, m |-> m, e |-> e]
IntNum(n) == Num(n, 0)

RECURSIVE Pow10(_)
Pow10(e) == IF e = 0 THEN 1 ELSE 10 * Pow10(e - 1)

NumLess(a, b) == a.m * Pow10(b.e) < b.m * Pow10(a.e)
NumEq(a, b) == a.m * Pow10(b.e) = b.m * Pow10(a.e)

\* The aggregation operator $type: it names the BSON type of the value
\* ("double", "int", "long", "decimal" for numbers, "string", "null",
\* "missing"); the alias "number" belongs to the $type query operator only.
BsonType(v) == v.t

\* A request parameter (req.query.x): undefined, a string, or the array that a
\* repeated parameter is parsed into. s is the value's string conversion.
Undefined == [t |-> "undefined", s |-> <<>>]
PStr(s) == [t |-> "string", s |-> s]
PArr(s) == [t |-> "array", s |-> s]

\* JavaScript truthiness of a request parameter
Truthy(p) == p.t = "array" \/ (p.t = "string" /\ p.s # <<>>)

-----------------------------------------------------------------------------
(* Priority Normalizer: the $addFields priorityNum stage *)

AllDigits(s) == s # <<>> /\ \A i \in 1..Len(s) : IsDigit(s[i])

\* $regexMatch with /^-?\d+(\.\d+)?$/
IsNumericString(s) ==
    LET u == IF s # <<>> /\ Head(s) = "-" THEN Tail(s) ELSE s
    IN  \/ AllDigits(u)
        \/ \E i \in 2..(Len(u) - 1) :
              /\ u[i] = "."
              /\ AllDigits(SubSeq(u, 1, i - 1))
              /\ AllDigits(SubSeq(u, i + 1, Len(u)))

RECURSIVE DigitsValue(_)
DigitsValue(s) ==
    IF s = <<>> THEN 0 ELSE 10 * DigitsValue(SubSeq(s, 1, Len(s) - 1)) + DigitVal(s[Len(s)])

\* $toDouble of a string that IsNumericString accepts
ToDouble(s) ==
    LET neg == s # <<>> /\ Head(s) = "-"
        u == IF neg THEN Tail(s) ELSE s
        ds == SelectSeq(u, LAMBDA c : c # ".")
        dot == IF InSeq(u, ".") THEN IndexOf(u, ".") ELSE Len(u) + 1
        mag == DigitsValue(ds)
    IN  Num(IF neg THEN 0 - mag ELSE mag, IF dot > Len(u) THEN 0 ELSE Len(u) - dot)

\* priorityNum of a document whose priority field holds p
PriorityNum(p) ==
    IF /\ p # Null                                  \* $ne: ['$priority', null]
       /\ ~(p.t = "string" /\ p.s = <<>>)           \* $ne: ['$priority', '']
       /\ BsonType(p) # "missing"
    THEN IF BsonType(p) = "number" THEN p
         ELSE IF BsonType(p) = "string"
              THEN IF IsNumericString(p.s) THEN ToDouble(p.s) ELSE IntNum(0)
              ELSE IntNum(0)
    ELSE IntNum(0)

-----------------------------------------------------------------------------
(* Field Registry *)

\* The filter names buildCombinedQuery reads from searchParams, in the order
\* of its filter blocks.
FilterNames ==
    <<"disease", "autoantibody", "autoantigen", "epitope", "uniprotId",
      "diseaseAssociation", "affinity", "sensitivity", "diagnosticMarker",
      "associationWithDiseaseActivity", "pathogenesisInvolvement", "reference",
      "databaseAccessionNumbers", "synonym", "screening", "confirmation",
      "monitoring", "positivePredictiveValues", "negativePredictiveValues",
      "crossReactivityPatterns", "referenceRangesAndCutoffValues", "type",
      "priority">>

\* The fields a search may name, and the fields of the field = 'all' search.
SearchFields ==
    <<"disease", "autoantibody", "autoantigen", "epitope", "uniprotId",
      "diseaseAssociation", "affinity", "avidity", "mechanism",
      "isotypeSubclasses", "sensitivity", "diagnosticMarker",
      "associationWithDiseaseActivity", "pathogenesisInvolvement", "reference",
      "databaseAccessionNumbers", "synonym", "screening", "confirmation",
      "monitoring", "positivePredictiveValues", "negativePredictiveValues",
      "crossReactivityPatterns", "referenceRangesAndCutoffValues", "type",
      "priority">>

Range(seq) == {seq[i] : i \in 1..Len(seq)}

\* The string fields of a diseaseData document (dataSchema)
DocFields == Range(SearchFields)

-----------------------------------------------------------------------------
(* Query Builder *)

\* A predicate of the store's query language: {} ("all"), {field: regex}
\* ("re"), {field: string} ("eq"), {$or: [...]} and {$and: [...]}.
EmptyQuery == [op |-> "all", field |-> "", regex |-> <<>>, args |-> <<>>]
Cond(f, re) == [op |-> "re", field |-> f, regex |-> re, args |-> <<>>]
Eq(f, v) == [op |-> "eq", field |-> f, regex |-> v, args |-> <<>>]
Or(terms) == [op |-> "or", field |-> "", regex |-> <<>>, args |-> terms]
And(conds) == [op |-> "and", field |-> "", regex |-> <<>>, args |-> conds]

\* The sources of the seven fixed synonym patterns of the Ro52/SSA branch
RoSynonymPatterns ==
    << <<"r","o","5","2">>,
       <<"a","n","t","i","-","r","o","5","2">>,
       <<"s","s","a">>,
       <<"r","o","\\","/","s","s","a">>,
       <<"r","o"," ","\\","(","s","s","a","\\",")">>,
       <<"r","o","/","s","s","-","a">>,
       <<"r","o"," ","s","s","-","a">> >>

\* Mutant of RoTrigger: the bare 'ro' test is left out
RoTriggerNamesOnly(term) ==
    LET low == ToLowerCase(term)
    IN  \/ Includes(low, <<"r","o","5","2">>)
        \/ Includes(low, <<"r","o","/","s","s","a">>)
        \/ Includes(low, <<"r","o"," ","(","s","s","a",")">>)

\* The condition that selects the Ro52/SSA branch
RoTrigger(term) ==
    LET low == ToLowerCase(term)
    IN  \/ Includes(low, <<"r","o","5","2">>)
        \/ Includes(low, <<"a","n","t","i","-","r","o","5","2">>)
        \/ Includes(low, <<"r","o","/","s","s","a">>)
        \/ Includes(low, <<"r","o"," ","(","s","s","a",")">>)
        \/ Includes(low, <<"r","o">>)

\* searchTerms of the regular branch: searchRegex on every search field
RegularTerms(re) == [i \in 1..Len(SearchFields) |-> Cond(SearchFields[i], re)]

\* searchTerms of the Ro52/SSA branch: the synonym patterns follow the first
\* autoantibody term
RoTerms(re) ==
    <<Cond("disease", re), Cond("autoantibody", re)>>
    \o [i \in 1..Len(RoSynonymPatterns) |-> Cond("autoantibody", RoSynonymPatterns[i])]
    \o [i \in 1..(Len(SearchFields) - 2) |-> Cond(SearchFields[i + 2], re)]

\* if (x && x.trim()) on a request parameter: a truthy value that is no string
\* has no trim method, and the call throws a TypeError
TrimThrows(p) == Truthy(p) /\ p.t # "string"
Present(p) == Truthy(p) /\ p.t = "string" /\ Trim(p.s) # <<>>

SearchConditions(p) ==
    IF Present(p.search)
    THEN LET escapedSearch == EscapeRegex(Trim(p.search.s))
         IN  IF p.field = "all"
             THEN <<Or(IF RoTrigger(Trim(p.search.s))
                       THEN RoTerms(escapedSearch)
                       ELSE RegularTerms(escapedSearch))>>
             ELSE IF p.field \in Range(SearchFields)
                  THEN <<Cond(p.field, escapedSearch)>>
                  ELSE <<>>
    ELSE <<>>

\* Mutants of FilterPattern: no anchors (a contains-match), no end anchor
FilterPatternUnanchored(v) == EscapeRegex(Trim(v))
FilterPatternPrefix(v) == <<"^">> \o EscapeRegex(Trim(v))

\* The pattern of a direct filter: anchored at both ends
FilterPattern(v) == <<"^">> \o EscapeRegex(Trim(v)) \o <<"$">>

RECURSIVE FilterConditionsFrom(_, _)
FilterConditionsFrom(p, i) ==
    IF i > Len(FilterNames) THEN <<>>
    ELSE (IF Present(p.filters[FilterNames[i]])
          THEN <<Cond(FilterNames[i], FilterPattern(p.filters[FilterNames[i]].s))>>
          ELSE <<>>)
         \o FilterConditionsFrom(p, i + 1)

\* Mutant of FilterConditions: a parameter of any other name is taken as a
\* filter on the field of that name
FilterConditionsAnyName(p) ==
    FilterConditionsFrom(p, 1)
    \o [i \in 1..Cardinality(DOMAIN p.filters \ Range(FilterNames)) |->
           Cond(CHOOSE f \in DOMAIN p.filters \ Range(FilterNames) : TRUE,
                FilterPattern(p.filters[CHOOSE f \in DOMAIN p.filters \ Range(FilterNames) : TRUE].s))]

FilterConditions(p) == FilterConditionsFrom(p, 1)

\* Mutant of Combine: two or more conditions are joined by $or
CombineAny(allConditions) ==
    IF Len(allConditions) = 0 THEN EmptyQuery
    ELSE IF Len(allConditions) = 1 THEN allConditions[1]
    ELSE Or(allConditions)

Combine(allConditions) ==
    IF Len(allConditions) = 0 THEN EmptyQuery
    ELSE IF Len(allConditions) = 1 THEN allConditions[1]
    ELSE And(allConditions)

\* buildCombinedQuery(searchParams): the predicate, or the TypeError it throws
buildCombinedQuery(p) ==
    IF TrimThrows(p.search) \/ \E f \in Range(FilterNames) : TrimThrows(p.filters[f])
    THEN [threw |-> TRUE, query |-> EmptyQuery]
    ELSE [threw |-> FALSE, query |-> Combine(SearchConditions(p) \o FilterConditions(p))]

\* Evaluation of a predicate on a document: a regex condition matches only a
\* field that holds a string
RECURSIVE Matches(_, _)
Matches(q, doc) ==
    CASE q.op = "all" -> TRUE
      [] q.op = "re" -> doc[q.field].t = "string" /\ RegexTest(q.regex, doc[q.field].s)
      [] q.op = "eq" -> doc[q.field].t = "string" /\ doc[q.field].s = q.regex
      [] q.op = "or" -> \E i \in 1..Len(q.args) : Matches(q.args[i], doc)
      [] q.op = "and" -> \A i \in 1..Len(q.args) : Matches(q.args[i], doc)

-----------------------------------------------------------------------------
(* The strings of the model *)

s_ro == <<"r","o">>
s_bro == <<"b","r","o">>
s_Ro52 == <<"R","o","5","2">>
s_SSA == <<"S","S","A">>
s_SLE == <<"S","L","E">>
s_sle == <<"s","l","e">>
s_sle_padded == <<" ","s","l","e"," ">>
s_SL == <<"S","L">>
s_SLEx == <<"S","L","E","x">>
s_xSLE == <<"x","S","L","E">>
s_blank == <<" "," ">>
s_a_dot_c == <<"a",".","c">>
s_abc == <<"a","b","c">>
s_a_paren == <<"a", "(">>
s_xA_paren == <<"x", "A", "(">>
s_array == <<"a",",","b">>

\* A document with every field missing, and one with a single field set
BlankDoc == [f \in DocFields |-> Missing]
DocWith(f, v) == [BlankDoc EXCEPT ![f] = v]

NoFilters == [f \in Range(FilterNames) |-> Undefined]

\* A parameter name that is the name of no field
UnknownName == "nosuchfield"

\* The filters together with a parameter of the unknown name, and without it
WithUnknown(filters, v) ==
    [f \in Range(FilterNames) \cup {UnknownName} |->
        IF f = UnknownName THEN v ELSE filters[f]]
KnownOnly(filters) == [f \in Range(FilterNames) |-> filters[f]]
Params(search, field, filters) == [search |-> search, field |-> field, filters |-> filters]

-----------------------------------------------------------------------------
(* Specification of the Query Builder: buildCombinedQuery applied to the     *)
(* parameter sets a request can carry                                        *)

SearchInputs ==
    {Undefined, PStr(s_blank), PStr(s_ro), PStr(s_bro), PStr(s_Ro52),
     PStr(s_a_dot_c), PStr(s_a_paren), PArr(s_array)}

\* field: absent (""), 'all', a field name, or an unrecognized name
FieldInputs == {"", "all", "autoantibody", "nosuchfield"}

FilterValueInputs ==
    {PStr(s_SLE), PStr(s_sle_padded), PStr(s_SL), PStr(s_a_dot_c), PStr(s_blank),
     PArr(s_array)}

FilterInputs ==
    {NoFilters}
    \cup {[NoFilters EXCEPT ![f] = v] : f \in Range(FilterNames), v \in FilterValueInputs}
    \cup {[NoFilters EXCEPT !["disease"] = PStr(s_SLE), !["autoantibody"] = PStr(s_SSA)]}

QueryInputs ==
    {Params(s, fld, flt) : s \in SearchInputs, fld \in FieldInputs, flt \in FilterInputs}

NotBuilt == [built |-> FALSE, threw |-> FALSE, query |-> EmptyQuery]
NoParams == Params(Undefined, "", NoFilters)

\* A stored priority value not yet normalized / the normalizer not yet applied
NotNormalized == [done |-> FALSE, num |-> IntNum(0)]

NoRequest == [op |-> "none"]

\* A response: the HTTP status, the documents of data, their relevanceScore
\* (advancedSearch), the pagination block (getAllEntries) and stats
NoResponse ==
    [status |-> 0, data |-> <<>>, scores |-> <<>>,
     page |-> 0, limit |-> 0, total |-> 0, pages |-> 0, stats |-> <<>>,
     names |-> {}, inserted |-> 0 - 1, failed |-> 0 - 1]

InitQuery ==
    /\ qParams \in QueryInputs
    /\ qResult = NotBuilt
    /\ store = <<>>
    /\ request = NoRequest
    /\ response = NoResponse
    /\ pnIn = Missing
    /\ pnOut = NotNormalized
    /\ NoSubmissions
    /\ NoReading
    /\ NoBiomarkers
    /\ NoArticles

BuildQuery ==
    /\ ~qResult.built
    /\ qResult' = [built |-> TRUE] @@ buildCombinedQuery(qParams)
    /\ UNCHANGED <<reading, biomarkers, articles, viewers, viewEvents, submissions, reviews, qParams, store, request, response, pnIn, pnOut>>

NextQuery == BuildQuery

SpecQuery == InitQuery /\ [][NextQuery]_vars

-----------------------------------------------------------------------------
(* Properties of the Query Builder (checked under SpecQuery) *)

QueryBuilt == qResult.built /\ ~qResult.threw

\* The filter on f is the only condition of the predicate
SoleFilter(f) ==
    /\ qParams.search = Undefined
    /\ Present(qParams.filters[f])
    /\ \A g \in Range(FilterNames) \ {f} : qParams.filters[g] = Undefined

\* The documents a filter on f is tried on: f equal to the filter value up to
\* case, f a proper superstring or substring of it, f different, f missing
FilterProbeValues ==
    {Missing, Str(s_SLE), Str(s_sle), Str(s_SLEx), Str(s_xSLE), Str(s_SL),
     Str(s_abc), Str(s_a_dot_c), Str(s_SSA)}
FilterProbes(f) == {DocWith(f, v) : v \in FilterProbeValues}

\* d's field f equals the (trimmed) filter value when both are case-folded
EqualsFolded(d, f, v) ==
    d[f].t = "string" /\ ToLowerCase(d[f].s) = ToLowerCase(Trim(v))

\* d's field f contains the (trimmed) filter value, case-insensitively
ContainsFolded(d, f, v) ==
    d[f].t = "string" /\ Includes(ToLowerCase(d[f].s), ToLowerCase(Trim(v)))

C4_PartialAutoantibodyFilter ==
    (QueryBuilt /\ SoleFilter("autoantibody")) =>
        \A d \in FilterProbes("autoantibody") :
            ContainsFolded(d, "autoantibody", qParams.filters["autoantibody"].s)
                => Matches(qResult.query, d)

\* C4 as amended: an autoantibody filter is anchored like every other filter;
\* it matches only documents whose autoantibody equals v (trimmed,
\* case-folded), and exactly those when it is the only condition.
C4_ExactAutoantibodyFilter ==
    (QueryBuilt /\ Present(qParams.filters["autoantibody"])) =>
        \A d \in FilterProbes("autoantibody") :
            /\ Matches(qResult.query, d)
                   => EqualsFolded(d, "autoantibody", qParams.filters["autoantibody"].s)
            /\ (SoleFilter("autoantibody")
                    /\ EqualsFolded(d, "autoantibody", qParams.filters["autoantibody"].s))
                   => Matches(qResult.query, d)

\* C4 witness: the autoantibody filter "SL" was built; the document holding
\* "SL" is matched and the one holding "SLE", which contains it, is not
C4_Witness ==
    /\ QueryBuilt
    /\ SoleFilter("autoantibody")
    /\ qParams.filters["autoantibody"] = PStr(s_SL)
    /\ Matches(qResult.query, DocWith("autoantibody", Str(s_SL)))
    /\ ~Matches(qResult.query, DocWith("autoantibody", Str(s_SLE)))

\* The documents a search is tried on
DocSSA == [DocWith("autoantibody", Str(s_SSA)) EXCEPT !["disease"] = Str(s_SLE)]
DocBro == [DocWith("autoantibody", Str(s_abc)) EXCEPT !["mechanism"] = Str(s_bro)]
DocAbc == [DocWith("autoantibody", Str(s_abc)) EXCEPT !["disease"] = Str(s_SLE)]
SearchProbes == {DocSSA, DocBro, DocAbc, BlankDoc}

\* Some search field of d contains the term, case-insensitively
ContainsTerm(d, term) ==
    \E f \in Range(SearchFields) : ContainsFolded(d, f, term)

AllFieldsSearch(term) ==
    /\ qParams.search.t = "string"
    /\ Trim(qParams.search.s) = term
    /\ qParams.field = "all"
    /\ qParams.filters = NoFilters

\* C5: field = 'all', search = 'ro' matches a document whose autoantibody is
\* exactly "SSA" even when none of its fields contains "ro".
C5_RoMatchesSSA ==
    (QueryBuilt /\ AllFieldsSearch(s_ro)) =>
        \A d \in SearchProbes :
            (d["autoantibody"] = Str(s_SSA) /\ ~ContainsTerm(d, s_ro))
                => Matches(qResult.query, d)

\* C5 witness: the 'ro' search was built and DocSSA, which contains "ro"
\* nowhere, is matched, while a document without any synonym is not
C5_Witness ==
    /\ QueryBuilt
    /\ AllFieldsSearch(s_ro)
    /\ ~ContainsTerm(DocSSA, s_ro)
    /\ Matches(qResult.query, DocSSA)
    /\ ~Matches(qResult.query, DocAbc)

\* C6: field = 'all', search = 'bro' does not trigger the synonym expansion:
\* the predicate matches a document only if one of its search fields contains
\* "bro".
C6_BroNoExpansion ==
    (QueryBuilt /\ AllFieldsSearch(s_bro)) =>
        \A d \in SearchProbes : Matches(qResult.query, d) => ContainsTerm(d, s_bro)

-----------------------------------------------------------------------------
(* Specification of the Priority Normalizer: the priorityNum expression      *)
(* applied to the values a priority field can hold                           *)

MaxPriorityLen == 3

PriorityChars == {"-", ".", "3", "5", "a"}

RECURSIVE StringsUpTo(_, _)
StringsUpTo(chars, n) ==
    IF n = 0 THEN {<<>>}
    ELSE LET shorter == StringsUpTo(chars, n - 1)
         IN  shorter \cup {Append(u, c) : u \in shorter, c \in chars}

PriorityInputs ==
    {Missing, Null, IntNum(7), IntNum(0), IntNum(0 - 2), Num(35, 1)}
    \cup {Str(u) : u \in StringsUpTo(PriorityChars, MaxPriorityLen)}

InitPriority ==
    /\ pnIn \in PriorityInputs
    /\ pnOut = NotNormalized
    /\ qParams = NoParams
    /\ qResult = NotBuilt
    /\ store = <<>>
    /\ request = NoRequest
    /\ response = NoResponse
    /\ NoSubmissions
    /\ NoReading
    /\ NoBiomarkers
    /\ NoArticles

Normalize ==
    /\ ~pnOut.done
    /\ pnOut' = [done |-> TRUE, num |-> PriorityNum(pnIn)]
    /\ UNCHANGED <<reading, biomarkers, articles, viewers, viewEvents, submissions, reviews, pnIn, qParams, qResult, store, request, response>>

NextPriority == Normalize

SpecPriority == InitPriority /\ [][NextPriority]_vars

\* The normalized priority as claimed: 0 for absent, null and ""; a number
\* itself; the value of a string "-?digits(.digits)?"; 0 for any other string
ClaimedPriority(p) ==
    CASE p.t \in {"missing", "null"} -> IntNum(0)
      [] p.t = "double" -> p
      [] p.t = "string" -> IF IsNumericString(p.s) THEN ToDouble(p.s) ELSE IntNum(0)

\* C7: the normalized priority used as sort key is 0 for an absent, null or
\* empty priority, the stored value itself for a number, the parsed value of a
\* numeric string, and 0 for any other string.
C7_NormalizedPriority ==
    pnOut.done => NumEq(pnOut.num, ClaimedPriority(pnIn))

\* The same, for the values that are not of numeric type
C7_NormalizedNonNumber ==
    (pnOut.done /\ pnIn.t # "double") => NumEq(pnOut.num, ClaimedPriority(pnIn))

-----------------------------------------------------------------------------
(* Ranked Retrieval: the aggregation pipeline stages *)

\* A pipeline row: the document with the fields $addFields attached
Row(d) == [doc |-> d, priorityNum |-> PriorityNum(d["priority"]), relevanceScore |-> Missing]

KeyVal(row, k) ==
    CASE k = "priorityNum" -> row.priorityNum
      [] k = "relevanceScore" -> row.relevanceScore
      [] OTHER -> IF k \in DocFields THEN row.doc[k] ELSE Missing

\* The store's comparison order of values of different types:
\* missing and null, then numbers, then strings
TypeRank(v) ==
    CASE v.t \in {"missing", "null"} -> 1
      [] v.t = "double" -> 2
      [] v.t = "string" -> 3

ValLess(a, b) ==
    \/ TypeRank(a) < TypeRank(b)
    \/ /\ TypeRank(a) = TypeRank(b)
       /\ \/ a.t = "double" /\ NumLess(a, b)
          \/ a.t = "string" /\ StrLess(a.s, b.s)

ValEq(a, b) == ~ValLess(a, b) /\ ~ValLess(b, a)

SortKey(k, dir) == [key |-> k, dir |-> dir]

\* r1 sorts strictly before r2 under the $sort specification
RECURSIVE RowBefore(_, _, _)
RowBefore(r1, r2, sortSpec) ==
    IF sortSpec = <<>> THEN FALSE
    ELSE LET a == KeyVal(r1, Head(sortSpec).key)
             b == KeyVal(r2, Head(sortSpec).key)
         IN  IF ValEq(a, b) THEN RowBefore(r1, r2, Tail(sortSpec))
             ELSE IF Head(sortSpec).dir = 1 THEN ValLess(a, b) ELSE ValLess(b, a)

Perms(n) == {p \in [1..n -> 1..n] : \A i, j \in 1..n : i # j => p[i] # p[j]}

Arrangements(rows) == {[i \in 1..Len(rows) |-> rows[p[i]]] : p \in Perms(Len(rows))}

IsSorted(rows, sortSpec) ==
    \A i \in 1..(Len(rows) - 1) : ~RowBefore(rows[i + 1], rows[i], sortSpec)

\* $sort: the store returns the rows in an order that respects the
\* specification; the order of rows that compare equal is not determined
SortResults(rows, sortSpec) == {r \in Arrangements(rows) : IsSorted(r, sortSpec)}

\* $match over the collection, in natural order
Match(coll, query) == SelectSeq(coll, LAMBDA d : Matches(query, d))

Min(a, b) == IF a < b THEN a ELSE b
Max(a, b) == IF a > b THEN a ELSE b

\* $skip then $limit
Skip(rows, n) == SubSeq(rows, n + 1, Len(rows))
Limit(rows, n) == SubSeq(rows, 1, Min(n, Len(rows)))

DocsOf(rows) == [i \in 1..Len(rows) |-> rows[i].doc]

-----------------------------------------------------------------------------
(* Number parsing *)

NaN == [nan |-> TRUE, n |-> 0]
Number(n) == [nan |-> FALSE, n |-> n]

RECURSIVE DigitPrefix(_)
DigitPrefix(s) ==
    IF s # <<>> /\ IsDigit(Head(s)) THEN <<Head(s)>> \o DigitPrefix(Tail(s)) ELSE <<>>

\* parseInt(x): leading white space, an optional sign, then the longest prefix
\* of digits; NaN when there is none (undefined included)
ParseInt(p) ==
    LET t == TrimStart(p.s)
        neg == t # <<>> /\ Head(t) = "-"
        u == IF t # <<>> /\ Head(t) \in {"-", "+"} THEN Tail(t) ELSE t
        ds == DigitPrefix(u)
    IN  IF p.t = "undefined" \/ ds = <<>> THEN NaN
        ELSE Number(IF neg THEN 0 - DigitsValue(ds) ELSE DigitsValue(ds))

\* x || d for a number x: NaN and 0 are falsy
OrDefault(x, d) == IF x.nan \/ x.n = 0 THEN d ELSE x.n

\* Math.ceil(a / b) for a >= 0, b > 0
CeilDiv(a, b) == (a + b - 1) \div b

-----------------------------------------------------------------------------
(* The diseaseData collection and its endpoints *)

MaxStore == 3

MaxLimit == 10000
DefaultLimit == 10
DefaultPage == 1

Reply(status, data) == [NoResponse EXCEPT !.status = status, !.data = data]

\* handleError for an error that is no ValidationError, CastError or duplicate
ServerError == Reply(500, <<>>)

\* An error response whose message names the fields of names
Refusal(status, names) == [NoResponse EXCEPT !.status = status, !.names = names]

RequiredFields == {"disease", "autoantibody", "autoantigen", "epitope", "uniprotId"}

\* A value of a JSON request body: undefined, a string or a number
\* (s is the number's decimal notation)
PNum(s) == [t |-> "number", s |-> s]

\* new DiseaseData(body): every field of the schema is a String with
\* trim: true; a number is cast to its notation
CastField(v) ==
    CASE v.t = "undefined" -> Missing
      [] v.t = "string" -> Str(Trim(v.s))
      [] v.t = "number" -> Str(v.s)

CastDoc(body) == [f \in DocFields |-> CastField(body[f])]

\* A schema without validators
SchemaAcceptsAll(d) == TRUE

\* Schema validation on save: a required path must hold a non-empty string
SchemaValid(d) == \A f \in RequiredFields : d[f].t = "string" /\ d[f].s # <<>>

\* The required paths the ValidationError of d reports (handleError joins
\* their messages)
FailingPaths(d) == {f \in RequiredFields : ~(d[f].t = "string" /\ d[f].s # <<>>)}

\* !x of a body value
Falsy(v) == v.t = "undefined" \/ (v.t = "string" /\ v.s = <<>>)

createEntry(body) ==
    /\ request = NoRequest
    /\ Len(store) < MaxStore
    /\ request' = [op |-> "createEntry", body |-> body]
    /\ IF \E f \in RequiredFields : Falsy(body[f])
       THEN /\ response' = Refusal(400, RequiredFields)
            /\ UNCHANGED store
       ELSE IF ~SchemaValid(CastDoc(body))
            THEN /\ response' = Refusal(400, FailingPaths(CastDoc(body)))
                 /\ UNCHANGED store
            ELSE /\ store' = Append(store, CastDoc(body))
                 /\ response' = Reply(201, <<CastDoc(body)>>)
    /\ UNCHANGED <<reading, biomarkers, articles, viewers, viewEvents, submissions, reviews, qParams, qResult, pnIn, pnOut>>

RemoveAt(seq, i) == SubSeq(seq, 1, i - 1) \o SubSeq(seq, i + 1, Len(seq))

\* deleteEntry: id names the document at position i, or no document
deleteEntry(i) ==
    /\ request = NoRequest
    /\ request' = [op |-> "deleteEntry", id |-> i]
    /\ IF i \in 1..Len(store)
       THEN /\ store' = RemoveAt(store, i)
            /\ response' = Reply(200, <<>>)
       ELSE /\ response' = Reply(404, <<>>)
            /\ UNCHANGED store
    /\ UNCHANGED <<reading, biomarkers, articles, viewers, viewEvents, submissions, reviews, qParams, qResult, pnIn, pnOut>>

\* The fields getAllEntries accepts as sortBy; createdAt and updatedAt are
\* not kept by the documents of the model
ValidSortFields == DocFields \cup {"createdAt", "updatedAt"}

\* The searchParams getAllEntries hands to buildCombinedQuery: every filter
\* name but priority
GetAllParams(q) ==
    Params(q.search, q.field,
           [f \in Range(FilterNames) |-> IF f = "priority" THEN Undefined ELSE q.filters[f]])

\* Mutant of EffectiveLimit: no ceiling at the maximum
EffectiveLimitUncapped(q) == Max(1, OrDefault(ParseInt(q.limit), DefaultLimit))

\* Mutant of SkipOffset: the requested page itself is skipped
SkipOffsetFromPage(page, limit) == page * limit

EffectivePage(q) == Max(1, OrDefault(ParseInt(q.page), DefaultPage))
EffectiveLimit(q) == Min(Max(1, OrDefault(ParseInt(q.limit), DefaultLimit)), MaxLimit)
SkipOffset(page, limit) == (page - 1) * limit
PageCount(total, limit) == CeilDiv(total, limit)

\* sortBy = 'disease' and sortOrder = 'asc' by default ("" stands for absent)
SortField(q) == IF q.sortBy \in ValidSortFields THEN q.sortBy ELSE "disease"
SortOrderNum(q) == IF q.sortOrder = "desc" THEN 0 - 1 ELSE 1
GetAllSort(q) == <<SortKey("priorityNum", 0 - 1), SortKey(SortField(q), SortOrderNum(q))>>

getAllEntries(q) ==
    /\ request = NoRequest
    /\ request' = [op |-> "getAllEntries", q |-> q]
    /\ LET page == EffectivePage(q)
           limit == EffectiveLimit(q)
           built == buildCombinedQuery(GetAllParams(q))
           rows == [i \in 1..Len(Match(store, built.query)) |-> Row(Match(store, built.query)[i])]
       IN  IF built.threw
           THEN response' = ServerError
           ELSE \E sorted \in SortResults(rows, GetAllSort(q)) :
                   response' =
                       [Reply(200, DocsOf(Limit(Skip(sorted, SkipOffset(page, limit)), limit)))
                           EXCEPT !.page = page,
                                  !.limit = limit,
                                  !.total = Len(Match(store, built.query)),
                                  !.pages = PageCount(Len(Match(store, built.query)), limit)]
    /\ UNCHANGED <<reading, biomarkers, articles, viewers, viewEvents, submissions, reviews, store, qParams, qResult, pnIn, pnOut>>

\* res.json has been sent: the request is over
ClientReceives ==
    /\ request # NoRequest
    /\ request' = NoRequest
    /\ response' = NoResponse
    /\ UNCHANGED <<reading, biomarkers, articles, viewers, viewEvents, submissions, reviews, store, qParams, qResult, pnIn, pnOut>>

\* A $limit stage accepts a positive integer only; NaN, 0 or a negative
\* number makes the aggregation fail
ValidLimit(x) == ~x.nan /\ x.n > 0

\* Math.min(parseInt(limit), cap), limit defaulting to dflt when absent
CappedLimit(p, dflt, cap) ==
    LET x == IF p.t = "undefined" THEN Number(dflt) ELSE ParseInt(p)
    IN  IF x.nan THEN NaN ELSE Number(Min(x.n, cap))

SearchMaxLimit == 1000
SearchDefaultLimit == 20

PrioritySort(k1, k2) == <<SortKey("priorityNum", 0 - 1), SortKey(k1, 1), SortKey(k2, 1)>>

RowsOf(docs) == [i \in 1..Len(docs) |-> Row(docs[i])]

\* searchEntries: q is the term, field defaults to 'all', limit to 20
searchEntries(q) ==
    /\ request = NoRequest
    /\ request' = [op |-> "searchEntries", q |-> q]
    /\ IF ~Truthy(q.q) THEN response' = Reply(400, <<>>)
       ELSE IF q.q.t # "string" THEN response' = ServerError
       ELSE IF Len(Trim(q.q.s)) < 1 THEN response' = Reply(400, <<>>)
       ELSE LET built == buildCombinedQuery(
                             Params(q.q, IF q.field = "" THEN "all" ELSE q.field, NoFilters))
                maxLimit == CappedLimit(q.limit, SearchDefaultLimit, SearchMaxLimit)
            IN  IF built.threw \/ ~ValidLimit(maxLimit)
                THEN response' = ServerError
                ELSE \E sorted \in SortResults(RowsOf(Match(store, built.query)),
                                               PrioritySort("disease", "autoantibody")) :
                        response' = Reply(200, DocsOf(Limit(sorted, maxLimit.n)))
    /\ UNCHANGED <<reading, biomarkers, articles, viewers, viewEvents, submissions, reviews, store, qParams, qResult, pnIn, pnOut>>

\* The weighted fields of advancedSearch, in the order of the $sum
WeightedFields ==
    <<"disease", "autoantibody", "autoantigen", "epitope", "uniprotId",
      "diseaseAssociation", "diagnosticMarker", "pathogenesisInvolvement",
      "reference">>

Weight(f) ==
    CASE f = "disease" -> 10
      [] f = "autoantibody" -> 8
      [] f = "autoantigen" -> 6
      [] f = "epitope" -> 4
      [] f = "uniprotId" -> 2
      [] f = "diseaseAssociation" -> 3
      [] f = "diagnosticMarker" -> 5
      [] f = "pathogenesisInvolvement" -> 3
      [] f = "reference" -> 1

\* $regexMatch on a field: false for a missing or null input
FieldMatches(d, f, re) == d[f].t = "string" /\ RegexTest(re, d[f].s)

RECURSIVE ScoreFrom(_, _, _)
ScoreFrom(d, re, i) ==
    IF i > Len(WeightedFields) THEN 0
    ELSE (IF FieldMatches(d, WeightedFields[i], re) THEN Weight(WeightedFields[i]) ELSE 0)
         + ScoreFrom(d, re, i + 1)

\* relevanceScore: the $sum of the weights of the fields that match
RelevanceScore(d, re) == ScoreFrom(d, re, 1)

ScoredRow(d, re) == [Row(d) EXCEPT !.relevanceScore = IntNum(RelevanceScore(d, re))]

\* Mutant of RelevanceSort: the lowest score first
RelevanceSortAscending == <<SortKey("relevanceScore", 1), SortKey("disease", 1)>>

RelevanceSort == <<SortKey("relevanceScore", 0 - 1), SortKey("disease", 1)>>

\* Mutant of AdvancedMatch: the term in any of the weighted fields only
AdvancedMatchWeightedOnly(re) ==
    Or([i \in 1..Len(WeightedFields) |-> Cond(WeightedFields[i], re)])

\* The $match of advancedSearch: the term in any of the search fields
AdvancedMatch(re) == Or(RegularTerms(re))

AdvancedMaxLimit == 100
AdvancedDefaultLimit == 50
AdvancedMinLength == 2

\* The $group / $project of the statistics pipeline
Distinct(docs, f) == {docs[i][f] : i \in {j \in 1..Len(docs) : docs[j][f].t # "missing"}}
StatsOf(docs) ==
    IF docs = <<>> THEN <<0, 0, 0, 0>>
    ELSE <<Len(docs), Cardinality(Distinct(docs, "disease")),
           Cardinality(Distinct(docs, "autoantibody")),
           Cardinality(Distinct(docs, "autoantigen"))>>

advancedSearch(q) ==
    /\ request = NoRequest
    /\ request' = [op |-> "advancedSearch", q |-> q]
    /\ IF ~Truthy(q.q) THEN response' = Reply(400, <<>>)
       ELSE IF q.q.t # "string" THEN response' = ServerError
       ELSE IF Len(Trim(q.q.s)) < AdvancedMinLength THEN response' = Reply(400, <<>>)
       ELSE LET searchRegex == EscapeRegex(Trim(q.q.s))
                matched == Match(store, AdvancedMatch(searchRegex))
                rows == [i \in 1..Len(matched) |-> ScoredRow(matched[i], searchRegex)]
                lim == CappedLimit(q.limit, AdvancedDefaultLimit, AdvancedMaxLimit)
            IN  IF ~ValidLimit(lim)
                THEN response' = ServerError
                ELSE \E sorted \in SortResults(rows, RelevanceSort) :
                        response' =
                            [Reply(200, DocsOf(Limit(sorted, lim.n)))
                                EXCEPT !.scores = [i \in 1..Len(Limit(sorted, lim.n)) |->
                                                      sorted[i].relevanceScore.m],
                                       !.stats = IF q.includeStats = "true"
                                                 THEN StatsOf(matched) ELSE <<>>]
    /\ UNCHANGED <<reading, biomarkers, articles, viewers, viewEvents, submissions, reviews, store, qParams, qResult, pnIn, pnOut>>

\* getEntriesByDisease: the route parameter, matched as a contains-pattern
getEntriesByDisease(disease) ==
    /\ request = NoRequest
    /\ request' = [op |-> "getEntriesByDisease", disease |-> disease]
    /\ IF Trim(disease) = <<>> THEN response' = Reply(400, <<>>)
       ELSE \E sorted \in SortResults(
                   RowsOf(Match(store, Cond("disease", EscapeRegex(Trim(disease))))),
                   PrioritySort("autoantibody", "autoantigen")) :
               response' = Reply(200, DocsOf(sorted))
    /\ UNCHANGED <<reading, biomarkers, articles, viewers, viewEvents, submissions, reviews, store, qParams, qResult, pnIn, pnOut>>

\* getEntriesByUniprotId: the route parameter, upper-cased, matched by equality
getEntriesByUniprotId(uniprotId) ==
    /\ request = NoRequest
    /\ request' = [op |-> "getEntriesByUniprotId", uniprotId |-> uniprotId]
    /\ IF Trim(uniprotId) = <<>> THEN response' = Reply(400, <<>>)
       ELSE \E sorted \in SortResults(
                   RowsOf(Match(store, Eq("uniprotId", Trim(ToUpperCase(uniprotId))))),
                   PrioritySort("disease", "autoantibody")) :
               response' = Reply(200, DocsOf(sorted))
    /\ UNCHANGED <<reading, biomarkers, articles, viewers, viewEvents, submissions, reviews, store, qParams, qResult, pnIn, pnOut>>

\* The filter names exportEntries reads: those of getAllEntries
ExportFilterNames == SubSeq(FilterNames, 1, Len(FilterNames) - 1)

RECURSIVE ExportConditionsFrom(_, _)
ExportConditionsFrom(filters, i) ==
    IF i > Len(ExportFilterNames) THEN <<>>
    ELSE (IF Truthy(filters[ExportFilterNames[i]])
          THEN <<Cond(ExportFilterNames[i], FilterPattern(filters[ExportFilterNames[i]].s))>>
          ELSE <<>>)
         \o ExportConditionsFrom(filters, i + 1)

\* query of exportEntries: one anchored condition per truthy filter
ExportQuery(filters) == And(ExportConditionsFrom(filters, 1))

exportEntries(q) ==
    /\ request = NoRequest
    /\ request' = [op |-> "exportEntries", q |-> q]
    /\ IF \E f \in Range(ExportFilterNames) : TrimThrows(q.filters[f])
       THEN response' = ServerError
       ELSE \E sorted \in SortResults(RowsOf(Match(store, ExportQuery(q.filters))),
                                      PrioritySort("disease", "autoantibody")) :
               response' =
                   Reply(200, DocsOf(IF Truthy(q.limit) /\ ValidLimit(ParseInt(q.limit))
                                     THEN Limit(sorted, Min(ParseInt(q.limit).n, MaxLimit))
                                     ELSE sorted))
    /\ UNCHANGED <<reading, biomarkers, articles, viewers, viewEvents, submissions, reviews, store, qParams, qResult, pnIn, pnOut>>

\* find() without a sort returns the documents in natural order
FindReply(query) == Reply(200, Match(store, query))

\* findByDiseaseAndAutoantibody: both patterns are built from the raw parameters
findByDiseaseAndAutoantibody(disease, autoantibody) ==
    /\ request = NoRequest
    /\ request' = [op |-> "findByDiseaseAndAutoantibody",
                   disease |-> disease, autoantibody |-> autoantibody]
    /\ IF ~Truthy(disease) \/ ~Truthy(autoantibody) THEN response' = Reply(400, <<>>)
       ELSE IF ~RegexValid(disease.s) \/ ~RegexValid(autoantibody.s)
            THEN response' = ServerError
            ELSE response' = FindReply(And(<<Cond("disease", disease.s),
                                             Cond("autoantibody", autoantibody.s)>>))
    /\ UNCHANGED <<reading, biomarkers, articles, viewers, viewEvents, submissions, reviews, store, qParams, qResult, pnIn, pnOut>>

\* The guard of the two single-term finders: 400, a TypeError, or the trimmed term
TermStatus(term) ==
    IF ~Truthy(term) THEN 400
    ELSE IF term.t # "string" THEN 500
    ELSE IF Len(Trim(term.s)) < 1 THEN 400
    ELSE IF ~RegexValid(Trim(term.s)) THEN 500
    ELSE 200

findByAutoantibodyOrSynonym(searchTerm) ==
    /\ request = NoRequest
    /\ request' = [op |-> "findByAutoantibodyOrSynonym", searchTerm |-> searchTerm]
    /\ IF TermStatus(searchTerm) # 200 THEN response' = Reply(TermStatus(searchTerm), <<>>)
       ELSE response' = FindReply(Or(<<Cond("autoantibody", Trim(searchTerm.s)),
                                       Cond("synonym", Trim(searchTerm.s))>>))
    /\ UNCHANGED <<reading, biomarkers, articles, viewers, viewEvents, submissions, reviews, store, qParams, qResult, pnIn, pnOut>>

findByDiagnosticMethod(method) ==
    /\ request = NoRequest
    /\ request' = [op |-> "findByDiagnosticMethod", method |-> method]
    /\ IF TermStatus(method) # 200 THEN response' = Reply(TermStatus(method), <<>>)
       ELSE response' = FindReply(Or(<<Cond("screening", Trim(method.s)),
                                       Cond("confirmation", Trim(method.s)),
                                       Cond("monitoring", Trim(method.s))>>))
    /\ UNCHANGED <<reading, biomarkers, articles, viewers, viewEvents, submissions, reviews, store, qParams, qResult, pnIn, pnOut>>

-----------------------------------------------------------------------------
(* Unique values: getUniqueValues and getFilteredUniqueValues *)

\* The field names the two endpoints accept: the search fields but priority
UniqueValueFields == Range(SubSeq(SearchFields, 1, Len(SearchFields) - 1))

\* parseFloat(s): leading white space, an optional sign, digits with an
\* optional fraction; NaN when no digit is found (exponents are not modelled)
ParseFloat(s) ==
    LET t == TrimStart(s)
        neg == t # <<>> /\ Head(t) = "-"
        u == IF t # <<>> /\ Head(t) \in {"-", "+"} THEN Tail(t) ELSE t
        int == DigitPrefix(u)
        rest == SubSeq(u, Len(int) + 1, Len(u))
        frac == IF rest # <<>> /\ Head(rest) = "." THEN DigitPrefix(Tail(rest)) ELSE <<>>
        mag == DigitsValue(int \o frac)
    IN  IF int = <<>> /\ frac = <<>> THEN [nan |-> TRUE, v |-> IntNum(0)]
        ELSE [nan |-> FALSE, v |-> Num(IF neg THEN 0 - mag ELSE mag, Len(frac))]

\* The priority of one entry: parseFloat of a truthy priority, 0 for NaN
EntryPriority(p) ==
    CASE p.t = "double" -> p
      [] p.t = "string" /\ p.s # <<>> ->
            IF ParseFloat(p.s).nan THEN IntNum(0) ELSE ParseFloat(p.s).v
      [] OTHER -> IntNum(0)

\* Model.distinct(field, query): the distinct values of the field among the
\* documents the query selects
DistinctOf(f, query) ==
    {store[i][f].s : i \in {k \in 1..Len(store) :
                               Matches(query, store[k]) /\ store[k][f].t = "string"}}

\* The orders in which the store may return a set of values
Orders(S) ==
    {o \in [1..Cardinality(S) -> S] :
        \A i, j \in 1..Cardinality(S) : i # j => o[i] # o[j]}

\* seen: a value is kept unless it is empty after trimming or equals, up to
\* case, one that came before
RECURSIVE FirstSeen(_, _)
FirstSeen(values, keys) ==
    IF values = <<>> THEN <<>>
    ELSE LET original == Trim(Head(values))
             key == ToLowerCase(original)
         IN  IF original = <<>> \/ key \in keys
             THEN FirstSeen(Tail(values), keys)
             ELSE <<original>> \o FirstSeen(Tail(values), keys \cup {key})

\* diseasePriorityMap.get(name.toLowerCase()) || 0: the highest priority among
\* the entries of the disease
DiseasePriority(entries, name) ==
    LET own == {i \in 1..Len(entries) :
                   /\ entries[i]["disease"].t = "string"
                   /\ Trim(entries[i]["disease"].s) # <<>>
                   /\ ToLowerCase(Trim(entries[i]["disease"].s)) = ToLowerCase(name)}
    IN  IF own = {} THEN IntNum(0)
        ELSE EntryPriority(entries[CHOOSE i \in own :
                 \A j \in own : ~NumLess(EntryPriority(entries[i]["priority"]),
                                         EntryPriority(entries[j]["priority"]))]["priority"])

\* a.localeCompare(b, undefined, { sensitivity: 'base' }) < 0, for values made
\* of letters, digits and blanks
LocaleLess(a, b) == StrLess(ToLowerCase(a), ToLowerCase(b))

\* The comparator of the final sort: a is placed before b
ValueBefore(a, b, entries, byPriority) ==
    IF byPriority /\ ~NumEq(DiseasePriority(entries, a), DiseasePriority(entries, b))
    THEN NumLess(DiseasePriority(entries, b), DiseasePriority(entries, a))
    ELSE LocaleLess(a, b)

\* Array.prototype.sort (stable) with that comparator
SortedValues(values, entries, byPriority) ==
    {r \in Arrangements(values) :
        \A i, j \in 1..Len(r) :
            i < j => \/ ValueBefore(r[i], r[j], entries, byPriority)
                     \/ /\ ~ValueBefore(r[j], r[i], entries, byPriority)
                        /\ \E k, l \in 1..Len(values) : k < l /\ values[k] = r[i] /\ values[l] = r[j]}

\* The answer over the documents the filter query selects
UniqueValuesReply(field, filterQuery, res) ==
    \E order \in Orders(DistinctOf(field, filterQuery)) :
        LET filteredValues == FirstSeen(order, {})
            entries == SelectSeq(Match(store, filterQuery),
                           LAMBDA d : d["disease"].t = "string"
                                      /\ d["disease"].s \in Range(filteredValues))
        IN  \E sorted \in SortedValues(filteredValues, entries, field = "disease") :
                res = Reply(200, sorted)

\* getUniqueValues: the route parameter field
getUniqueValues(field) ==
    /\ request = NoRequest
    /\ request' = [op |-> "getUniqueValues", field |-> field]
    /\ IF field \notin UniqueValueFields
       THEN response' = Reply(400, <<>>)
       ELSE UniqueValuesReply(field, EmptyQuery, response')
    /\ UNCHANGED <<reading, biomarkers, articles, viewers, viewEvents, submissions, reviews, store, qParams, qResult, pnIn, pnOut>>

\* The filters getFilteredUniqueValues applies for a field, in the order of
\* the code
DependencyFilters(field) ==
    CASE field = "disease" -> <<"autoantibody", "autoantigen", "epitope">>
      [] field = "autoantibody" -> <<"disease", "autoantigen">>
      [] field = "autoantigen" -> <<"disease", "autoantibody">>
      [] field = "epitope" -> <<"autoantigen", "disease", "autoantibody">>
      [] field = "uniprotId" -> <<"autoantibody", "autoantigen", "disease", "epitope">>
      [] field = "type" -> <<"disease", "autoantibody", "autoantigen", "epitope">>
      [] OTHER -> <<>>

\* filterQuery: one anchored condition per truthy dependency filter
DependencyQuery(field, filters) ==
    LET names == SelectSeq(DependencyFilters(field), LAMBDA f : Truthy(filters[f]))
    IN  IF names = <<>> THEN EmptyQuery
        ELSE And([i \in 1..Len(names) |-> Cond(names[i], FilterPattern(filters[names[i]].s))])

\* getFilteredUniqueValues: the route parameter field and the query
\* parameters disease, autoantibody, autoantigen, epitope
getFilteredUniqueValues(field, filters) ==
    /\ request = NoRequest
    /\ request' = [op |-> "getFilteredUniqueValues", field |-> field, filters |-> filters]
    /\ IF field \notin UniqueValueFields
       THEN response' = Reply(400, <<>>)
       ELSE IF \E f \in Range(DependencyFilters(field)) : TrimThrows(filters[f])
       THEN response' = ServerError
       ELSE IF field = "epitope" /\ \A f \in Range(DependencyFilters(field)) : ~Truthy(filters[f])
       THEN response' = Reply(200, <<>>)
       ELSE UniqueValuesReply(field, DependencyQuery(field, filters), response')
    /\ UNCHANGED <<reading, biomarkers, articles, viewers, viewEvents, submissions, reviews, store, qParams, qResult, pnIn, pnOut>>

-----------------------------------------------------------------------------
(* The requests of the model *)

s_P1 == <<"P","1">>
s_p1 == <<"p","1">>
s_s == <<"s">>
s_0 == <<"0">>
s_1 == <<"1">>
s_2 == <<"2">>
s_5 == <<"5">>
s_minus1 == <<"-","1">>
s_20000 == <<"2","0","0","0","0">>
s_x == <<"x">>
s_abc_padded == <<" ", "a", "b", "c", " ">>
s_open == <<"(">>

\* A request body with the required fields set, autoantigen, epitope and
\* uniprotId fixed
Body(disease, autoantibody, reference, mechanism, priority) ==
    [f \in DocFields |->
        CASE f = "disease" -> disease
          [] f = "autoantibody" -> autoantibody
          [] f \in {"autoantigen", "epitope"} -> PStr(s_abc)
          [] f = "uniprotId" -> PStr(s_P1)
          [] f = "reference" -> reference
          [] f = "mechanism" -> mechanism
          [] f = "priority" -> priority
          [] OTHER -> Undefined]

BodyInputs ==
    {Body(PStr(s_SLE), PStr(s_SLEx), Undefined, Undefined, Undefined),
     Body(PStr(s_abc), PStr(s_SSA), PStr(s_sle), Undefined, PStr(s_5)),
     Body(PStr(s_abc_padded), PStr(s_abc), Undefined, PStr(s_sle), PNum(s_1)),
     Body(Undefined, PStr(s_abc), Undefined, Undefined, Undefined),
     Body(PStr(s_blank), PStr(s_abc), Undefined, Undefined, Undefined)}

\* Documents written to the collection outside the schema: their priority is
\* stored as a number
LegacyDoc(disease, priority) ==
    [CastDoc(Body(PStr(disease), PStr(s_abc), Undefined, Undefined, Undefined))
        EXCEPT !["priority"] = priority]

\* The collection the server finds at start-up
InitialStores == {<<>>, <<LegacyDoc(s_SLE, IntNum(1)), LegacyDoc(s_abc, IntNum(5))>>}

PageInputs == {Undefined, PStr(s_2), PStr(s_0), PStr(s_minus1), PStr(s_x)}
LimitInputs == {Undefined, PStr(s_1), PStr(s_2), PStr(s_minus1), PStr(s_20000)}

\* sortBy and sortOrder of a getAllEntries request
SortInputs ==
    {[sortBy |-> "", sortOrder |-> "asc"],
     [sortBy |-> "autoantibody", sortOrder |-> "desc"],
     [sortBy |-> "nosuchfield", sortOrder |-> "asc"]}

\* search, field and filters of a getAllEntries request
SelectionInputs ==
    {Params(Undefined, "", NoFilters),
     Params(PStr(s_sle), "all", NoFilters),
     Params(Undefined, "", [NoFilters EXCEPT !["disease"] = PStr(s_sle_padded)]),
     Params(PArr(s_array), "all", NoFilters),
     Params(Undefined, "",
            WithUnknown([NoFilters EXCEPT !["disease"] = PStr(s_sle_padded)], PStr(s_abc)))}

GetAllInputs ==
    {[page |-> pg, limit |-> lm, sortBy |-> so.sortBy, sortOrder |-> so.sortOrder,
      search |-> sel.search, field |-> sel.field, filters |-> sel.filters] :
        pg \in PageInputs, lm \in LimitInputs, so \in SortInputs,
        sel \in SelectionInputs}

SearchEntriesInputs ==
    {[q |-> t, field |-> fld, limit |-> lm] :
        t \in {Undefined, PStr(s_sle), PStr(s_ro), PArr(s_array)},
        fld \in {"", "disease", "nosuchfield"},
        lm \in {Undefined, PStr(s_1), PStr(s_x)}}

AdvancedInputs ==
    {[q |-> t, limit |-> lm, includeStats |-> st] :
        t \in {Undefined, PStr(s_s), PStr(s_sle), PStr(s_p1), PArr(s_array)},
        lm \in {Undefined, PStr(s_1), PStr(s_0), PStr(s_x)},
        st \in {"", "true"}}

ExportInputs ==
    {[format |-> fmt, limit |-> lm, filters |-> flt] :
        fmt \in {"json", "csv"},
        lm \in {Undefined, PStr(s_1), PStr(s_x)},
        flt \in {NoFilters,
                 [NoFilters EXCEPT !["disease"] = PStr(s_sle_padded)],
                 [NoFilters EXCEPT !["disease"] = PStr(s_blank)],
                 [NoFilters EXCEPT !["disease"] = PArr(s_array)]}}

RouteParamInputs == {s_blank, s_sle, s_abc, s_p1}

\* The field of a unique-values request: accepted names, a name the query
\* builder knows but the endpoint does not, an unknown name, the empty name
UniqueFieldInputs == {"disease", "autoantibody", "epitope", "priority", "nosuchfield", ""}

\* disease, autoantibody, autoantigen, epitope of a getFilteredUniqueValues request
DependencyInputs ==
    {[NoFilters EXCEPT !["autoantibody"] = a, !["disease"] = d] :
        a \in {Undefined, PStr(s_abc), PArr(s_array)}, d \in {Undefined, PStr(s_sle)}}
TermInputs == {Undefined, PStr(s_blank), PStr(s_s), PStr(s_open), PArr(s_array)}

-----------------------------------------------------------------------------
(* Specification of the diseaseData endpoints *)

Init ==
    /\ store \in InitialStores
    /\ request = NoRequest
    /\ response = NoResponse
    /\ qParams = NoParams
    /\ qResult = NotBuilt
    /\ pnIn = Missing
    /\ pnOut = NotNormalized
    /\ NoSubmissions
    /\ NoReading
    /\ NoBiomarkers
    /\ NoArticles

Next ==
    \/ \E body \in BodyInputs : createEntry(body)
    \/ \E i \in 1..MaxStore : deleteEntry(i)
    \/ \E q \in GetAllInputs : getAllEntries(q)
    \/ \E q \in SearchEntriesInputs : searchEntries(q)
    \/ \E q \in AdvancedInputs : advancedSearch(q)
    \/ \E d \in RouteParamInputs : getEntriesByDisease(d)
    \/ \E u \in RouteParamInputs : getEntriesByUniprotId(u)
    \/ \E q \in ExportInputs : exportEntries(q)
    \/ \E d, a \in TermInputs : findByDiseaseAndAutoantibody(d, a)
    \/ \E t \in TermInputs : findByAutoantibodyOrSynonym(t)
    \/ \E t \in TermInputs : findByDiagnosticMethod(t)
    \/ \E f \in UniqueFieldInputs : getUniqueValues(f)
    \/ \E f \in UniqueFieldInputs, flt \in DependencyInputs : getFilteredUniqueValues(f, flt)
    \/ ClientReceives

Spec == Init /\ [][Next]_vars

-----------------------------------------------------------------------------
(* Ranked Retrieval: ordering of the results *)

Answered(op) == request.op = op /\ response.status = 200

\* No document of docs is placed before one whose normalized priority,
\* taken by norm, is strictly higher
PriorityFirst(docs, norm(_)) ==
    \A i, j \in 1..Len(docs) :
        i < j => ~NumLess(norm(docs[i]["priority"]), norm(docs[j]["priority"]))

\* Documents of docs with equal normalized priority follow the key k in
\* direction dir
OrderedWithinPriority(docs, norm(_), k, dir) ==
    \A i, j \in 1..Len(docs) :
        (i < j /\ NumEq(norm(docs[i]["priority"]), norm(docs[j]["priority"])))
            => IF dir = 1 THEN ~ValLess(docs[j][k], docs[i][k])
               ELSE ~ValLess(docs[i][k], docs[j][k])

\* C1: the list returned by getAllEntries never places a record with a
\* strictly lower normalized priority before one with a strictly higher
\* normalized priority, and the requested sort field and direction order only
\* records of equal normalized priority.
C1_PriorityFirst ==
    Answered("getAllEntries") =>
        /\ PriorityFirst(response.data, ClaimedPriority)
        /\ OrderedWithinPriority(response.data, ClaimedPriority,
                                 SortField(request.q), SortOrderNum(request.q))

\* The same, for the lists all of whose priorities are stored as strings (or
\* are absent), as the schema writes them
C1_PriorityFirstStrings ==
    (Answered("getAllEntries")
        /\ \A i \in 1..Len(response.data) : response.data[i]["priority"].t # "double") =>
        /\ PriorityFirst(response.data, ClaimedPriority)
        /\ OrderedWithinPriority(response.data, ClaimedPriority,
                                 SortField(request.q), SortOrderNum(request.q))

\* A page of getAllEntries holds the priority "5" before the priority "1"
\* although the sort field orders them the other way
C1_StringsWitness ==
    /\ Answered("getAllEntries")
    /\ SortField(request.q) = "autoantibody"
    /\ SortOrderNum(request.q) = 0 - 1
    /\ Len(response.data) = 2
    /\ response.data[1]["priority"] = Str(s_5)
    /\ response.data[2]["priority"] = Str(s_1)
    /\ ValLess(response.data[1]["autoantibody"], response.data[2]["autoantibody"])

ListingOps ==
    {"getAllEntries", "searchEntries", "advancedSearch", "getEntriesByDisease",
     "getEntriesByUniprotId", "exportEntries", "findByDiseaseAndAutoantibody",
     "findByAutoantibodyOrSynonym", "findByDiagnosticMethod"}

\* The endpoints whose pipeline sorts by priorityNum first
PrioritySortedOps ==
    {"getAllEntries", "searchEntries", "getEntriesByDisease",
     "getEntriesByUniprotId", "exportEntries"}

\* C2: every listing, search and export endpoint returns the records of
\* higher priority before those of lower priority, whatever other ordering
\* the endpoint applies. The priority is normalized as the endpoints' own
\* sort key normalizes it.
C2_PriorityFirstEverywhere ==
    \A op \in ListingOps : Answered(op) => PriorityFirst(response.data, PriorityNum)

\* The same, for the endpoints that sort by priorityNum
C2_PriorityFirstWhereSorted ==
    \A op \in PrioritySortedOps : Answered(op) => PriorityFirst(response.data, PriorityNum)

-----------------------------------------------------------------------------
(* Pagination *)

\* The number of documents of the store the query of the request selects
MatchCount(q) ==
    Cardinality({i \in 1..Len(store) :
                    Matches(buildCombinedQuery(GetAllParams(q)).query, store[i])})

\* Positions first..last of a list, empty when first > last
Window(full, first, last) ==
    [i \in 1..(IF last < first THEN 0 ELSE last - first + 1) |-> full[first + i - 1]]

\* C8: for getAllEntries with effective page p and page size L over N matching
\* records, the returned records are those at the positions (p-1)*L+1 ..
\* min(p*L, N) of the fully sorted match list, total is N whatever the page
\* window, and pages is the ceiling of N / L.
C8_Pagination ==
    Answered("getAllEntries") =>
        LET q == request.q
            N == MatchCount(q)
            p == response.page
            L == response.limit
        IN  /\ response.total = N
            /\ response.pages * L >= N
            /\ (response.pages - 1) * L < N \/ (N = 0 /\ response.pages = 0)
            /\ \E full \in SortResults(
                               RowsOf(Match(store, buildCombinedQuery(GetAllParams(q)).query)),
                               GetAllSort(q)) :
                   response.data = DocsOf(Window(full, (p - 1) * L + 1, Min(p * L, N)))

\* C8 witness: page 2 of size 2 over 3 matching records holds the third
\* record alone; total is 3 and pages is 2
C8_Witness ==
    /\ Answered("getAllEntries")
    /\ response.page = 2
    /\ response.limit = 2
    /\ MatchCount(request.q) = 3
    /\ response.total = 3
    /\ response.pages = 2
    /\ Len(response.data) = 1

\* C9: getAllEntries rejects no request for its page or limit: whatever the
\* two inputs are, the request is answered unless the query builder fails,
\* the effective page is at least 1, the effective limit is within 1..10000
\* and the skip offset is not negative.
C9_ClampedPageAndLimit ==
    request.op = "getAllEntries" =>
        /\ response.status = 200 <=> ~buildCombinedQuery(GetAllParams(request.q)).threw
        /\ response.status = 200 =>
              /\ response.page >= 1
              /\ response.limit >= 1
              /\ response.limit <= MaxLimit
              /\ SkipOffset(response.page, response.limit) >= 0
              /\ Len(response.data) <= response.limit

\* C9 witness: page = -1 and limit = 20000 were answered with page 1 and
\* limit 10000
C9_Witness ==
    /\ Answered("getAllEntries")
    /\ request.q.page = PStr(s_minus1)
    /\ request.q.limit = PStr(s_20000)
    /\ response.page = 1
    /\ response.limit = MaxLimit

-----------------------------------------------------------------------------
(* Relevance Scorer *)

ClaimedWeights ==
    [disease |-> 10, autoantibody |-> 8, autoantigen |-> 6, diagnosticMarker |-> 5,
     epitope |-> 4, diseaseAssociation |-> 3, pathogenesisInvolvement |-> 3,
     uniprotId |-> 2, reference |-> 1]

RECURSIVE SumOver(_, _)
SumOver(S, w) ==
    IF S = {} THEN 0
    ELSE LET f == CHOOSE x \in S : TRUE IN w[f] + SumOver(S \ {f}, w)

\* The sum of the weights of the weighted fields of d that contain the term
ClaimedScore(d, term) ==
    SumOver({f \in DOMAIN ClaimedWeights : ContainsFolded(d, f, term)}, ClaimedWeights)

\* C10: advancedSearch orders its results by relevance score descending, the
\* score of a record being the sum of the weights of exactly those weighted
\* fields that contain the term (an absent field contributing 0), with ties
\* broken by disease ascending; a record of score 18 is ranked strictly above
\* one of score 1.
C10_RelevanceOrder ==
    Answered("advancedSearch") =>
        /\ Len(response.scores) = Len(response.data)
        /\ \A i \in 1..Len(response.data) :
              response.scores[i] = ClaimedScore(response.data[i], request.q.q.s)
        /\ \A i, j \in 1..Len(response.data) :
              i < j =>
                 /\ response.scores[i] >= response.scores[j]
                 /\ response.scores[i] = response.scores[j] =>
                       ~ValLess(response.data[j]["disease"], response.data[i]["disease"])

\* C10 witness: the record matching disease and autoantibody (18) is returned
\* before the record matching reference only (1), which was stored first
C10_Witness ==
    /\ Answered("advancedSearch")
    /\ response.scores = <<18, 1>>
    /\ store[1] = response.data[2]
    /\ response.data[1]["reference"].t = "missing"

\* Two records of equal score are returned in the order of their diseases,
\* which is not the order of the store
C10_TieWitness ==
    /\ Answered("advancedSearch")
    /\ response.scores = <<2, 2>>
    /\ store[1] = response.data[2]
    /\ ValLess(response.data[1]["disease"], response.data[2]["disease"])

-----------------------------------------------------------------------------
(* advancedSearch: the records selected *)

\* Some field of fields holds the term in d, case-insensitively
ContainsIn(d, fields, term) == \E f \in fields : ContainsFolded(d, f, term)

\* The number of documents of the store that hold the term in a field of fields
HoldersIn(fields, term) ==
    Cardinality({i \in 1..Len(store) : ContainsIn(store[i], fields, term)})

\* The result cap of the advancedSearch request
AdvancedCap == CappedLimit(request.q.limit, AdvancedDefaultLimit, AdvancedMaxLimit).n

\* The returned list is made of the documents that hold the term in a field
\* of fields, all of them up to the cap
ReturnsHolders(fields) ==
    /\ \A i \in 1..Len(response.data) :
          /\ ContainsIn(response.data[i], fields, request.q.q.s)
          /\ \E k \in 1..Len(store) : store[k] = response.data[i]
    /\ Len(response.data) = Min(AdvancedCap, HoldersIn(fields, request.q.q.s))

\* C11 as claimed: a record is returned by advancedSearch (before the result
\* cap) if and only if at least one of the nine weighted fields contains the
\* term case-insensitively, so that every returned record has a relevance
\* score of at least 1.
C11_MatchIffWeightedField ==
    Answered("advancedSearch") =>
        /\ ReturnsHolders(Range(WeightedFields))
        /\ \A i \in 1..Len(response.scores) : response.scores[i] >= 1

\* C11 amended: a record is returned by advancedSearch (before the result cap)
\* if and only if at least one of the 26 search fields contains the term
\* case-insensitively; its relevance score is 0 when no weighted field does.
C11_MatchIffSearchField ==
    Answered("advancedSearch") =>
        /\ ReturnsHolders(Range(SearchFields))
        /\ \A i \in 1..Len(response.scores) :
              response.scores[i] >= 1
                 <=> ContainsIn(response.data[i], Range(WeightedFields), request.q.q.s)

\* C11 witness: a record that holds the term in mechanism only is returned
\* with the relevance score 0
C11_Witness ==
    /\ Answered("advancedSearch")
    /\ \E i \in 1..Len(response.data) :
          /\ response.scores[i] = 0
          /\ ContainsFolded(response.data[i], "mechanism", request.q.q.s)
          /\ ~ContainsIn(response.data[i], Range(WeightedFields), request.q.q.s)

-----------------------------------------------------------------------------
(* Query Builder: combination of the conditions (checked under SpecQuery) *)

\* The request carries a search condition: a non-blank term and a field that
\* is 'all' or a search field
HasSearchCondition(p) ==
    Present(p.search) /\ (p.field = "all" \/ p.field \in Range(SearchFields))

\* The filter names whose value is supplied (non-blank)
SuppliedFilters(p) == {f \in Range(FilterNames) : Present(p.filters[f])}

ConditionCount(p) ==
    (IF HasSearchCondition(p) THEN 1 ELSE 0) + Cardinality(SuppliedFilters(p))

\* The documents a combined predicate is tried on
CombineProbes == FilterProbes("disease") \cup FilterProbes("autoantibody") \cup SearchProbes

\* d satisfies the search condition (if any) and every supplied filter
SatisfiesAll(p, d) ==
    /\ HasSearchCondition(p) => Matches(SearchConditions(p)[1], d)
    /\ \A f \in SuppliedFilters(p) : EqualsFolded(d, f, p.filters[f].s)

\* C12: buildCombinedQuery combines its conditions conjunctively: without any
\* condition it returns the empty predicate, which matches every record; with
\* exactly one it returns that condition unchanged; with two or more it
\* returns their AND, so that a record is matched iff it satisfies the search
\* condition (if any) and every supplied filter.
C12_ConjunctiveCombine ==
    QueryBuilt =>
        LET conds == SearchConditions(qParams) \o FilterConditions(qParams)
        IN  /\ Len(conds) = ConditionCount(qParams)
            /\ ConditionCount(qParams) = 0 => qResult.query = EmptyQuery
            /\ ConditionCount(qParams) = 1 => qResult.query = conds[1]
            /\ ConditionCount(qParams) >= 2 =>
                  qResult.query.op = "and" /\ qResult.query.args = conds
            /\ \A d \in CombineProbes :
                  Matches(qResult.query, d) <=> SatisfiesAll(qParams, d)

\* C12 witness: a search and a filter were combined; a document satisfies the
\* filter but not the search and is not matched, another satisfies both and is
C12_Witness ==
    /\ QueryBuilt
    /\ HasSearchCondition(qParams)
    /\ SuppliedFilters(qParams) = {"disease"}
    /\ qResult.query.op = "and"
    /\ \E d \in CombineProbes :
          /\ EqualsFolded(d, "disease", qParams.filters["disease"].s)
          /\ ~Matches(SearchConditions(qParams)[1], d)
          /\ ~Matches(qResult.query, d)
    /\ \E d \in CombineProbes : Matches(qResult.query, d)

-----------------------------------------------------------------------------
(* Unknown field names *)

\* The searchParams of the getAllEntries request as the request carries them
CarriedParams(q) == Params(q.search, q.field, q.filters)

CarriesUnknown(q) == UnknownName \in DOMAIN q.filters /\ Truthy(q.filters[UnknownName])

\* C13: a filter parameter whose name is no recognized field is silently
\* ignored by buildCombinedQuery: the predicate is the one built without it
\* and no error is raised; the same name passed as the field of
\* getUniqueValues or getFilteredUniqueValues is rejected with an error (400)
\* that carries no data, whatever the store holds.
C13_UnknownFieldName ==
    /\ (request.op = "getAllEntries" /\ CarriesUnknown(request.q)) =>
          /\ buildCombinedQuery(CarriedParams(request.q))
                = buildCombinedQuery(Params(request.q.search, request.q.field,
                                            KnownOnly(request.q.filters)))
          /\ ~buildCombinedQuery(CarriedParams(request.q)).threw
          /\ response.status = 200
          /\ response.total = MatchCount([request.q EXCEPT !.filters = KnownOnly(@)])
    /\ (request.op \in {"getUniqueValues", "getFilteredUniqueValues"}
            /\ request.field \notin DocFields) =>
          response = Reply(400, <<>>)

\* C13 witness: over a store that holds a record whose disease is not "sle",
\* the unknown parameter was ignored by getAllEntries, whose disease filter
\* selected one record
C13_Witness ==
    /\ request.op = "getAllEntries"
    /\ CarriesUnknown(request.q)
    /\ response.status = 200
    /\ response.total = 1
    /\ Len(store) = 2

\* An unknown field name was rejected by getFilteredUniqueValues over a store
\* that holds records
C13_RejectWitness ==
    /\ request.op = "getFilteredUniqueValues"
    /\ request.field = UnknownName
    /\ response.status = 400
    /\ Len(store) >= 1

-----------------------------------------------------------------------------
(* Query Builder: escaping and malformed input (checked under SpecQuery) *)

\* The pattern source of the search regex of the built search condition
SearchRegexOf(p) ==
    IF p.field = "all" THEN SearchConditions(p)[1].args[1].regex
    ELSE SearchConditions(p)[1].regex

\* The documents a search is tried on: the field holds the term, the term in
\* another case inside a longer text, or a text that the term would match
\* were its metacharacters operators
EscapeProbes ==
    {DocWith(f, Str(v)) : f \in {"disease", "autoantibody"},
                          v \in {s_a_dot_c, s_abc, s_a_paren, s_xA_paren, s_SSA}}

\* No filter value is a non-string
StringFilters(p) == \A f \in Range(FilterNames) : ~TrimThrows(p.filters[f])

\* C14: for every search term, terms with regex metacharacters included,
\* buildCombinedQuery does not throw, and the search predicate matches a
\* record whose searched field contains the term as literal text,
\* case-insensitively; the metacharacters of the term are never taken as
\* pattern operators, so a record that does not contain the literal term is
\* not matched (outside the Ro52/SSA expansion).
C14_LiteralSearch ==
    (qResult.built /\ HasSearchCondition(qParams) /\ StringFilters(qParams)) =>
        LET term == Trim(qParams.search.s)
            cond == SearchConditions(qParams)[1]
            fields == IF qParams.field = "all" THEN Range(SearchFields) ELSE {qParams.field}
        IN  /\ ~qResult.threw
            /\ RegexValid(SearchRegexOf(qParams))
            /\ \A d \in EscapeProbes :
                  /\ ContainsIn(d, fields, term) => Matches(cond, d)
                  /\ (Matches(cond, d) /\ ~RoTrigger(term)) => ContainsIn(d, fields, term)

\* C14 witness: the term "a(" was searched in every field; the record holding
\* "xA(" is matched
C14_Witness ==
    /\ QueryBuilt
    /\ HasSearchCondition(qParams)
    /\ qParams.search = PStr(s_a_paren)
    /\ qParams.field = "all"
    /\ Matches(qResult.query, DocWith("disease", Str(s_xA_paren)))
    /\ ~Matches(qResult.query, DocWith("disease", Str(s_abc)))

\* C15: buildCombinedQuery raises no error for malformed input: for every
\* combination of search, field and filter values a request can carry
\* (absent, empty, blank, a string, or a non-string such as the array of a
\* repeated parameter) it returns a predicate.
C15_NeverThrows ==
    qResult.built => ~qResult.threw

\* The same, for the requests all of whose values are strings or absent
C15_NeverThrowsOnStrings ==
    (qResult.built /\ ~TrimThrows(qParams.search) /\ StringFilters(qParams)) => ~qResult.threw

-----------------------------------------------------------------------------
(* Submissions: createSubmission, approveSubmission, rejectSubmission *)

MaxSubmissions == 1

\* The descriptive fields of a submission: those approveSubmission copies
\* (additional, a map, is left out of the model)
SubmissionFields ==
    {"disease", "autoantibody", "diseaseAssociation", "autoantigen", "epitope",
     "epitopePrevalence", "uniprotId", "affinity", "avidity", "mechanism",
     "isotypeSubclasses", "sensitivity", "diagnosticMarker",
     "associationWithDiseaseActivity", "pathogenesisInvolvement", "reference"}

\* required: true in submissionSchema
SubmissionRequired == RequiredFields \cup {"reference"}

SubmissionStatuses == {"pending", "approved", "rejected"}

\* A body of POST /submissions: the descriptive fields and, when the client
\* sends them, the workflow fields ("" and FALSE stand for absent)
SubmissionBody(disease, reference, status, reviewedBy, reviewedAt) ==
    [fields |-> [f \in SubmissionFields |->
                    CASE f = "disease" -> disease
                      [] f = "reference" -> reference
                      [] f \in RequiredFields -> PStr(s_abc)
                      [] OTHER -> Undefined],
     status |-> status, reviewedBy |-> reviewedBy, reviewedAt |-> reviewedAt]

\* !req.body[field] || !req.body[field].toString().trim()
BlankField(v) == Falsy(v) \/ Trim(v.s) = <<>>

\* The order in which createSubmission goes through the required fields
RequiredOrder == <<"disease", "autoantibody", "autoantigen", "epitope", "uniprotId">>

\* The field at which the loop of createSubmission returns
FirstBlank(fields) ==
    RequiredOrder[CHOOSE i \in 1..Len(RequiredOrder) :
                     /\ BlankField(fields[RequiredOrder[i]])
                     /\ \A j \in 1..(i - 1) : ~BlankField(fields[RequiredOrder[j]])]

\* DiseaseSubmission.create({ ...req.body, submittedBy, metadata }): the
\* workflow fields of the body are taken over; status defaults to 'pending'
NewSubmission(body, user) ==
    [fields |-> [f \in SubmissionFields |-> CastField(body.fields[f])],
     status |-> IF body.status = "" THEN "pending" ELSE body.status,
     reviewedBy |-> body.reviewedBy,
     reviewedAt |-> body.reviewedAt,
     submittedBy |-> user,
     verified |-> FALSE]

\* Validation of the new document: required paths and the enum of status
SubmissionValid(sub) ==
    /\ \A f \in SubmissionRequired : sub.fields[f].t = "string" /\ sub.fields[f].s # <<>>
    /\ sub.status \in SubmissionStatuses

createSubmission(body, user) ==
    /\ request = NoRequest
    /\ Len(submissions) < MaxSubmissions
    /\ request' = [op |-> "createSubmission", body |-> body]
    /\ IF \E f \in RequiredFields : BlankField(body.fields[f])
       THEN /\ response' = Refusal(400, {FirstBlank(body.fields)})
            /\ UNCHANGED submissions
       ELSE IF ~SubmissionValid(NewSubmission(body, user))
            THEN /\ response' = ServerError
                 /\ UNCHANGED submissions
            ELSE /\ submissions' = Append(submissions, NewSubmission(body, user))
                 /\ response' = Reply(201, <<NewSubmission(body, user)>>)
    /\ UNCHANGED <<reading, biomarkers, articles, viewers, viewEvents, store, reviews, qParams, qResult, pnIn, pnOut>>

\* The handler of reviewer w has answered the request for id
Answers(w, op, id, http) ==
    reviews' = [reviews EXCEPT ![w] = [pc |-> "done", op |-> op, id |-> id,
                                      created |-> 0, http |-> http]]

\* Mutant of ApproveGuard: every submission that is not pending is refused
ApproveGuardNotPending(sub) == sub.status # "pending"

\* if (submission.status === 'approved'): the approval is refused
ApproveGuard(sub) == sub.status = "approved"

\* if (submission.status === 'rejected'): the rejection is refused
RejectGuard(sub) == sub.status = "rejected"

\* approveSubmission up to its first write: the id is checked, the submission
\* is read (findById) and the guard is applied to what was read. An id of 0
\* stands for a string that is no ObjectId.
approveSubmission(w, id) ==
    /\ reviews[w].pc = "idle"
    /\ IF id = 0 THEN Answers(w, "approve", id, 400)
       ELSE IF id > Len(submissions) THEN Answers(w, "approve", id, 404)
       ELSE IF ApproveGuard(submissions[id]) THEN Answers(w, "approve", id, 400)
       ELSE reviews' = [reviews EXCEPT ![w] = [pc |-> "create", op |-> "approve", id |-> id,
                                               created |-> 0, http |-> 0]]
    /\ UNCHANGED <<reading, biomarkers, articles, viewers, viewEvents, store, submissions, request, response, qParams, qResult, pnIn, pnOut>>

\* Mutant of MaterializedRecord: the record is not marked verified
MaterializedUnverified(sub) ==
    [f \in DocFields \cup SubmissionFields \cup {"metadata"} |->
        IF f = "metadata" THEN [source |-> "user_submission_approved", verified |-> FALSE]
        ELSE IF f \in SubmissionFields THEN sub.fields[f] ELSE Missing]

\* The document DiseaseData.create receives: the descriptive fields of the
\* submission and the metadata of an approved submission
MaterializedRecord(sub) ==
    [f \in DocFields \cup SubmissionFields \cup {"metadata"} |->
        IF f = "metadata" THEN [source |-> "user_submission_approved", verified |-> TRUE]
        ELSE IF f \in SubmissionFields THEN sub.fields[f] ELSE Missing]

\* await DiseaseData.create({...}): the first write of approveSubmission
approveSubmissionCreate(w) ==
    /\ reviews[w].pc = "create"
    /\ Len(store) < MaxStore
    /\ store' = Append(store, MaterializedRecord(submissions[reviews[w].id]))
    /\ reviews' = [reviews EXCEPT ![w].pc = "save", ![w].created = Len(store) + 1]
    /\ UNCHANGED <<reading, biomarkers, articles, viewers, viewEvents, submissions, request, response, qParams, qResult, pnIn, pnOut>>

\* submission.save(): the workflow fields the handler has set are written,
\* whatever the stored status is by then
Reviewed(sub, status, w) ==
    [sub EXCEPT !.status = status, !.reviewedBy = w, !.reviewedAt = TRUE]

\* await submission.save() and the response: the second write of approveSubmission
approveSubmissionSave(w) ==
    /\ reviews[w].pc = "save"
    /\ reviews[w].op = "approve"
    /\ submissions' = [submissions EXCEPT ![reviews[w].id] = Reviewed(@, "approved", w)]
    /\ Answers(w, reviews[w].op, reviews[w].id, 200)
    /\ UNCHANGED <<reading, biomarkers, articles, viewers, viewEvents, store, request, response, qParams, qResult, pnIn, pnOut>>

\* rejectSubmission up to its write
rejectSubmission(w, id) ==
    /\ reviews[w].pc = "idle"
    /\ IF id = 0 THEN Answers(w, "reject", id, 400)
       ELSE IF id > Len(submissions) THEN Answers(w, "reject", id, 404)
       ELSE IF RejectGuard(submissions[id]) THEN Answers(w, "reject", id, 400)
       ELSE reviews' = [reviews EXCEPT ![w] = [pc |-> "save", op |-> "reject", id |-> id,
                                               created |-> 0, http |-> 0]]
    /\ UNCHANGED <<reading, biomarkers, articles, viewers, viewEvents, store, submissions, request, response, qParams, qResult, pnIn, pnOut>>

\* await submission.save() and the response of rejectSubmission
rejectSubmissionSave(w) ==
    /\ reviews[w].pc = "save"
    /\ reviews[w].op = "reject"
    /\ submissions' = [submissions EXCEPT ![reviews[w].id] = Reviewed(@, "rejected", w)]
    /\ Answers(w, reviews[w].op, reviews[w].id, 200)
    /\ UNCHANGED <<reading, biomarkers, articles, viewers, viewEvents, store, request, response, qParams, qResult, pnIn, pnOut>>

\* Mutant of storeOperationFails: the record the handler created is removed
storeOperationFailsUndone(w) ==
    /\ reviews[w].pc \in {"create", "save"}
    /\ Answers(w, reviews[w].op, reviews[w].id, 500)
    /\ store' = IF reviews[w].created # 0 /\ reviews[w].created <= Len(store)
                THEN RemoveAt(store, reviews[w].created) ELSE store
    /\ UNCHANGED <<reading, biomarkers, articles, viewers, viewEvents, submissions, request, response, qParams, qResult, pnIn, pnOut>>

\* The awaited write is rejected by the store (or the connection is lost):
\* the catch block answers 500 and undoes nothing
storeOperationFails(w) ==
    /\ reviews[w].pc \in {"create", "save"}
    /\ Answers(w, reviews[w].op, reviews[w].id, 500)
    /\ UNCHANGED <<reading, biomarkers, articles, viewers, viewEvents, store, submissions, request, response, qParams, qResult, pnIn, pnOut>>

\* The reviewer has received the response
ReviewerReceives(w) ==
    /\ reviews[w].pc = "done"
    /\ reviews' = [reviews EXCEPT ![w] = IdleReview]
    /\ UNCHANGED <<reading, biomarkers, articles, viewers, viewEvents, store, submissions, request, response, qParams, qResult, pnIn, pnOut>>

\* The user has received the response of createSubmission
SubmitterReceives ==
    /\ request # NoRequest
    /\ request' = NoRequest
    /\ response' = NoResponse
    /\ UNCHANGED <<reading, biomarkers, articles, viewers, viewEvents, store, submissions, reviews, qParams, qResult, pnIn, pnOut>>

s_u1 == "u1"
s_u9 == "u9"

\* The bodies of the model: a complete one; disease blank; reference absent;
\* the workflow fields set by the client
SubmissionBodies ==
    {SubmissionBody(PStr(s_sle_padded), PStr(s_abc), "", "", FALSE),
     SubmissionBody(PStr(s_blank), PStr(s_abc), "", "", FALSE),
     SubmissionBody(PStr(s_SLE), Undefined, "", "", FALSE),
     SubmissionBody(PStr(s_SLE), PStr(s_abc), "approved", s_u9, TRUE)}

InitSubmissions ==
    /\ store = <<>>
    /\ request = NoRequest
    /\ response = NoResponse
    /\ qParams = NoParams
    /\ qResult = NotBuilt
    /\ pnIn = Missing
    /\ pnOut = NotNormalized
    /\ NoSubmissions
    /\ NoReading
    /\ NoBiomarkers
    /\ NoArticles

NextSubmissions ==
    \/ \E body \in SubmissionBodies : createSubmission(body, s_u1)
    \/ SubmitterReceives
    \/ \E w \in Reviewers, id \in 0..MaxSubmissions : approveSubmission(w, id)
    \/ \E w \in Reviewers : approveSubmissionCreate(w)
    \/ \E w \in Reviewers : approveSubmissionSave(w)
    \/ \E w \in Reviewers, id \in 0..MaxSubmissions : rejectSubmission(w, id)
    \/ \E w \in Reviewers : rejectSubmissionSave(w)
    \/ \E w \in Reviewers : storeOperationFails(w)
    \/ \E w \in Reviewers : ReviewerReceives(w)

SpecSubmissions == InitSubmissions /\ [][NextSubmissions]_vars

-----------------------------------------------------------------------------
(* Properties of the submissions (checked under SpecSubmissions) *)

\* C16: every Submission created through createSubmission starts its
\* lifecycle with status pending and without reviewedBy and reviewedAt,
\* whatever fields the request body contains.
C16_StartsPending ==
    (request.op = "createSubmission" /\ response.status = 201) =>
        /\ response.data[1].status = "pending"
        /\ response.data[1].reviewedBy = ""
        /\ ~response.data[1].reviewedAt

\* The same, for the bodies that carry no workflow field
C16_StartsPendingByDefault ==
    (request.op = "createSubmission" /\ response.status = 201
        /\ request.body.status = "" /\ request.body.reviewedBy = ""
        /\ ~request.body.reviewedAt) =>
        /\ response.data[1].status = "pending"
        /\ response.data[1].reviewedBy = ""
        /\ ~response.data[1].reviewedAt

\* rec holds the descriptive fields of sub and is marked verified
RecordOf(rec, sub) ==
    /\ \A f \in SubmissionFields : rec[f] = sub.fields[f]
    /\ rec["metadata"].verified

\* Reviewer w takes the step from pc a to pc b of its handler for op
StepOf(w, op, a, b) ==
    /\ reviews[w].pc = a
    /\ reviews'[w].pc = b
    /\ reviews'[w].op = op

\* C17: approveSubmission on a pending Submission creates exactly one new
\* Record, which copies the descriptive fields of the submission and has
\* metadata.verified = true, and then sets the status of the Submission to
\* approved with reviewedBy and reviewedAt set; rejectSubmission sets the
\* status to rejected with reviewedBy and reviewedAt set and creates no Record.
C17_ApproveMaterializes ==
    [][\A w \in Reviewers :
         LET id == reviews[w].id IN
         /\ (StepOf(w, "approve", "idle", "create") \/ StepOf(w, "reject", "idle", "save")) =>
               store' = store /\ submissions' = submissions
         /\ (StepOf(w, "approve", "idle", "done") /\ reviews'[w].id \in 1..Len(submissions)) =>
               submissions[reviews'[w].id].status # "pending"
         /\ StepOf(w, "approve", "create", "save") =>
               /\ store' = Append(store, store'[Len(store')])
               /\ RecordOf(store'[Len(store')], submissions[id])
               /\ reviews'[w].created = Len(store')
               /\ submissions' = submissions
         /\ (StepOf(w, "approve", "save", "done") /\ reviews'[w].http = 200) =>
               /\ store' = store
               /\ RecordOf(store[reviews[w].created], submissions'[id])
               /\ submissions'[id].status = "approved"
               /\ submissions'[id].reviewedBy = w
               /\ submissions'[id].reviewedAt
               /\ submissions'[id].fields = submissions[id].fields
         /\ (StepOf(w, "reject", "save", "done") /\ reviews'[w].http = 200) =>
               /\ store' = store
               /\ reviews[w].created = 0
               /\ submissions'[id].status = "rejected"
               /\ submissions'[id].reviewedBy = w
               /\ submissions'[id].reviewedAt
      ]_vars

\* C17 witness: the approval of the only submission has been answered with
\* 200 by a reviewer working alone; one verified record holds its fields and
\* the submission is approved, reviewed by that reviewer
C17_Witness ==
    \E w \in Reviewers :
        /\ reviews[w].pc = "done" /\ reviews[w].op = "approve" /\ reviews[w].http = 200
        /\ \A v \in Reviewers \ {w} : reviews[v] = IdleReview
        /\ Len(store) = 1
        /\ Len(submissions) = 1
        /\ RecordOf(store[1], submissions[1])
        /\ submissions[1].status = "approved"
        /\ submissions[1].reviewedBy = w

\* C18: once the status of a Submission is approved or rejected it never
\* changes again under any sequence of approveSubmission and
\* rejectSubmission calls, and a rejected Submission never leads to a Record.
C18_TerminalStatus ==
    [][\A i \in 1..Len(submissions) :
         /\ submissions[i].status \in {"approved", "rejected"} =>
               submissions'[i].status = submissions[i].status
         /\ \A w \in Reviewers :
               (StepOf(w, "approve", "create", "save") /\ reviews[w].id = i) =>
                   submissions[i].status # "rejected"
      ]_vars

\* C19: the guard of approveSubmission is applied to the status that was read:
\* an approval is refused as already approved exactly when the status it read
\* is approved, otherwise it goes on to create a Record, and the create is not
\* conditioned on the status again; so two approvals that both read a pending
\* Submission both create a Record.
C19_GuardOnReadStatus ==
    [][\A w \in Reviewers :
         /\ (reviews[w].pc = "idle" /\ reviews'[w].op = "approve"
                /\ reviews'[w].id \in 1..Len(submissions)) =>
               /\ reviews'[w].pc = "create"
                     <=> submissions[reviews'[w].id].status # "approved"
               /\ (reviews'[w].pc = "done" /\ reviews'[w].http = 400)
                     <=> submissions[reviews'[w].id].status = "approved"
         /\ (reviews[w].pc = "create" /\ reviews'[w].pc = "save") =>
               Len(store') = Len(store) + 1
      ]_vars

\* C19 witness: both reviewers have read the pending submission and both have
\* created a record of it, before either status write
C19_Witness ==
    /\ Len(submissions) = 1
    /\ submissions[1].status = "pending"
    /\ \A w \in Reviewers :
          /\ reviews[w].pc = "save" /\ reviews[w].op = "approve" /\ reviews[w].id = 1
          /\ reviews[w].created \in 1..Len(store)
          /\ RecordOf(store[reviews[w].created], submissions[1])
    /\ \E v, w \in Reviewers : reviews[v].created # reviews[w].created

C20_ApprovedAfterCreate ==
    [][\A i \in 1..Len(submissions) :
         (submissions[i].status # "approved" /\ submissions'[i].status = "approved") =>
             \E w \in Reviewers :
                 /\ reviews[w].id = i
                 /\ reviews[w].created \in 1..Len(store)
                 /\ RecordOf(store[reviews[w].created], submissions[i])
      ]_vars

-----------------------------------------------------------------------------
(* Writes of records: updateEntry, bulkImport, importFromFile *)

\* The required paths of an update body that fail the update validators
\* (runValidators: true): a path that is set must not be cast to ''
UpdateFailingPaths(body) ==
    {f \in RequiredFields : body[f].t # "undefined" /\ CastField(body[f]).s = <<>>}

\* The document after { ...req.body } has been applied: the paths of the body
\* are cast and set, the others are kept (an undefined value is an absent key)
UpdatedDoc(d, body) ==
    [f \in DOMAIN d |->
        IF f \in DocFields /\ body[f].t # "undefined" THEN CastField(body[f]) ELSE d[f]]

\* updateEntry: id 0 is not of the ObjectId format; the update validators run
\* before the document is looked up
updateEntry(i, body) ==
    /\ request = NoRequest
    /\ request' = [op |-> "updateEntry", id |-> i, body |-> body]
    /\ IF i = 0
       THEN /\ response' = Refusal(400, {})
            /\ UNCHANGED store
       ELSE IF UpdateFailingPaths(body) # {}
            THEN /\ response' = Refusal(400, UpdateFailingPaths(body))
                 /\ UNCHANGED store
            ELSE IF i > Len(store)
                 THEN /\ response' = Reply(404, <<>>)
                      /\ UNCHANGED store
                 ELSE /\ store' = [store EXCEPT ![i] = UpdatedDoc(store[i], body)]
                      /\ response' = Reply(200, <<UpdatedDoc(store[i], body)>>)
    /\ UNCHANGED <<reading, biomarkers, articles, viewers, viewEvents, submissions, reviews, qParams, qResult, pnIn, pnOut>>

\* An entry of a batch: its fields and its _id, "fresh" when the client sends
\* none (or an unused one), "taken" when it sends the _id of a stored record
Entry(body, id) == [body |-> body, id |-> id]

BulkMaxEntries == 1000

\* validateBulkEntries: the entries for which an error message is pushed
validateBulkEntries(entries) ==
    {i \in 1..Len(entries) :
        \E f \in RequiredFields : BlankField(entries[i].body[f])}

\* A String path takes a string or a number; an array raises a CastError
Castable(body) == \A f \in DocFields : body[f].t \in {"undefined", "string", "number"}

\* insertMany validates every document; with ordered: false the documents
\* that fail are left out without an error
PassesValidation(e) == Castable(e.body) /\ SchemaValid(CastDoc(e.body))

\* The insert of a document whose _id is taken is a write error (E11000)
Written(e) == e.id = "fresh"

CastDocs(entries) == [i \in 1..Len(entries) |-> CastDoc(entries[i].body)]

\* insertMany(entries, { ordered: false }): the documents inserted and the
\* number of write errors; any write error makes the call throw after the
\* other documents have been inserted
insertMany(entries) ==
    [docs |-> CastDocs(SelectSeq(SelectSeq(entries, PassesValidation), Written)),
     writeErrors |-> Len(SelectSeq(entries, PassesValidation))
                        - Len(SelectSeq(SelectSeq(entries, PassesValidation), Written))]

\* A response with data.inserted and data.failed
Counts(status, inserted, failed) ==
    [NoResponse EXCEPT !.status = status, !.inserted = inserted, !.failed = failed]

bulkImport(entries) ==
    /\ request = NoRequest
    /\ Len(store) + Len(entries) <= MaxStore
    /\ request' = [op |-> "bulkImport", entries |-> entries]
    /\ IF entries = <<>> \/ Len(entries) > BulkMaxEntries \/ validateBulkEntries(entries) # {}
       THEN /\ response' = Refusal(400, {})
            /\ UNCHANGED store
       ELSE LET r == insertMany(entries) IN
            /\ store' = store \o r.docs
            /\ response' =
                  IF r.writeErrors = 0
                  THEN Counts(200, Len(r.docs), Len(entries) - Len(r.docs))
                  ELSE IF Len(r.docs) > 0
                       THEN Counts(207, Len(r.docs), r.writeErrors)
                       ELSE Refusal(409, {})
    /\ UNCHANGED <<reading, biomarkers, articles, viewers, viewEvents, submissions, reviews, qParams, qResult, pnIn, pnOut>>

\* The text mapRow takes from a cell: '' for a column that is absent or blank
CellText(v) == IF v.t = "undefined" THEN <<>> ELSE Trim(v.s)

\* mapRow: the required fields are strings, the others undefined when blank
mapRow(row) ==
    [f \in DocFields |->
        IF f \in RequiredFields \/ CellText(row[f]) # <<>>
        THEN PStr(CellText(row[f]))
        ELSE Undefined]

\* The filter of the mapped rows: every required field has a value
HasRequired(e) == \A f \in RequiredFields : ~BlankField(e.body[f])

FileEntries(rows) ==
    SelectSeq([i \in 1..Len(rows) |-> Entry(mapRow(rows[i]), "fresh")], HasRequired)

\* The required columns the header row does not have
MissingColumns(rows) == {f \in RequiredFields : rows[1][f].t = "undefined"}

importFromFile(rows) ==
    /\ request = NoRequest
    /\ Len(store) + Len(rows) <= MaxStore
    /\ request' = [op |-> "importFromFile", entries |-> rows]
    /\ IF rows = <<>>
       THEN /\ response' = Refusal(400, {})
            /\ UNCHANGED store
       ELSE IF FileEntries(rows) = <<>>
            THEN /\ response' = Refusal(400, MissingColumns(rows))
                 /\ UNCHANGED store
            ELSE IF validateBulkEntries(FileEntries(rows)) # {}
                 THEN /\ response' = Refusal(400, {})
                      /\ UNCHANGED store
                 ELSE LET r == insertMany(FileEntries(rows)) IN
                      /\ store' = store \o r.docs
                      /\ response' =
                            IF r.writeErrors = 0
                            THEN Counts(200, Len(r.docs), Len(FileEntries(rows)) - Len(r.docs))
                            ELSE Counts(207, Len(r.docs), r.writeErrors)
    /\ UNCHANGED <<reading, biomarkers, articles, viewers, viewEvents, submissions, reviews, qParams, qResult, pnIn, pnOut>>

(* The write requests of the model *)

GoodBody == Body(PStr(s_SLE), PStr(s_SLEx), Undefined, Undefined, Undefined)
s_SLE_padded == <<" ","S","L","E"," ">>
PaddedBody == Body(PStr(s_SLE_padded), PStr(s_SLEx), Undefined, Undefined, Undefined)
BlankBody == Body(PStr(s_blank), PStr(s_abc), Undefined, Undefined, Undefined)
AbsentBody == Body(Undefined, Undefined, Undefined, Undefined, Undefined)
UncastableBody == Body(PStr(s_abc), PStr(s_abc), Undefined, PArr(s_array), Undefined)

WriteBodies == {GoodBody, BlankBody, AbsentBody}

\* An update of disease
Patch(disease) == [f \in DocFields |-> IF f = "disease" THEN disease ELSE Undefined]

UpdateInputs == {Patch(PStr(s_abc_padded)), Patch(PStr(s_blank))}

BatchInputs ==
    {<<>>,
     <<Entry(GoodBody, "fresh")>>,
     <<Entry(GoodBody, "fresh"), Entry(BlankBody, "fresh")>>,
     <<Entry(GoodBody, "fresh"), Entry(UncastableBody, "fresh")>>,
     <<Entry(UncastableBody, "fresh")>>,
     <<Entry(PaddedBody, "fresh"), Entry(GoodBody, "taken")>>,
     <<Entry(GoodBody, "taken")>>}

\* A stored record must exist for an _id to be taken
Sendable(entries) ==
    (\E i \in 1..Len(entries) : entries[i].id = "taken") => store # <<>>

FileInputs ==
    {<<>>, <<PaddedBody>>, <<PaddedBody, BlankBody>>, <<BlankBody>>, <<AbsentBody>>}

TwoBlankSubmission ==
    [SubmissionBody(PStr(s_blank), PStr(s_abc), "", "", FALSE)
        EXCEPT !.fields["epitope"] = Undefined]

WriteSubmissions ==
    {SubmissionBody(PStr(s_sle_padded), PStr(s_abc), "", "", FALSE),
     SubmissionBody(PStr(s_blank), PStr(s_abc), "", "", FALSE),
     TwoBlankSubmission}

s_r1 == "r1"

InitWrites == InitSubmissions

NextWrites ==
    \/ \E body \in WriteBodies : createEntry(body)
    \/ \E i \in 0..MaxStore, body \in UpdateInputs : updateEntry(i, body)
    \/ \E entries \in BatchInputs : Sendable(entries) /\ bulkImport(entries)
    \/ \E rows \in FileInputs : importFromFile(rows)
    \/ ClientReceives
    \/ \E body \in WriteSubmissions : createSubmission(body, s_u1)
    \/ \E id \in 1..MaxSubmissions : approveSubmission(s_r1, id)
    \/ approveSubmissionCreate(s_r1)
    \/ approveSubmissionSave(s_r1)
    \/ ReviewerReceives(s_r1)

SpecWrites == InitWrites /\ [][NextWrites]_vars

-----------------------------------------------------------------------------
(* Properties of the writes (checked under SpecWrites) *)

\* The required fields that are missing or blank in the fields of a body
BlankFieldsOf(fields) == {f \in RequiredFields : BlankField(fields[f])}

\* C21: when createEntry or createSubmission is called with any of disease,
\* autoantibody, autoantigen, epitope, uniprotId missing or blank, the call
\* returns a validation error that reports the list of missing fields, and
\* nothing is persisted.
C21_ReportsMissingFields ==
    /\ (request.op = "createEntry" /\ BlankFieldsOf(request.body) # {}) =>
          /\ response.status = 400
          /\ response.names = BlankFieldsOf(request.body)
    /\ (request.op = "createSubmission" /\ BlankFieldsOf(request.body.fields) # {}) =>
          /\ response.status = 400
          /\ response.names = BlankFieldsOf(request.body.fields)

\* A create call with a required field missing or blank is answered 400, its
\* message names at least one of the missing fields, and neither collection
\* changes
C21_RejectedAndNothingPersisted ==
    [][/\ (request'.op = "createEntry" /\ request = NoRequest
              /\ BlankFieldsOf(request'.body) # {}) =>
             /\ response'.status = 400
             /\ response'.names \cap BlankFieldsOf(request'.body) # {}
             /\ store' = store /\ submissions' = submissions
       /\ (request'.op = "createSubmission" /\ request = NoRequest
              /\ BlankFieldsOf(request'.body.fields) # {}) =>
             /\ response'.status = 400
             /\ response'.names \cap BlankFieldsOf(request'.body.fields) # {}
             /\ store' = store /\ submissions' = submissions
      ]_vars

\* An entry that can be inserted on its own: it has the required fields, its
\* values can be cast and its _id is not taken
Insertable(e) == HasRequired(e) /\ Castable(e.body) /\ e.id = "fresh"

\* The entries of an import request: those of the body, or the mapped rows of
\* the file
EntriesOf(req) ==
    IF req.op = "bulkImport"
    THEN req.entries
    ELSE [i \in 1..Len(req.entries) |-> Entry(mapRow(req.entries[i]), "fresh")]

\* An import request with at least one row is answered
ImportStep ==
    /\ request = NoRequest
    /\ request'.op \in {"bulkImport", "importFromFile"}
    /\ request'.entries # <<>>

\* C22: in bulkImport and importFromFile a failure of individual rows does
\* not abort the batch: the rows that can be inserted are inserted and stay
\* inserted, and the response reports the number inserted and the number
\* failed, for every split of the batch into good and failing rows
\* (including the case where no row could be inserted).
C22_PartialSuccess ==
    [][ImportStep =>
          LET entries == EntriesOf(request')
              good == SelectSeq(entries, Insertable)
          IN  /\ store' = store \o CastDocs(good)
              /\ response'.inserted = Len(good)
              /\ response'.failed = Len(entries) - Len(good)
      ]_vars

\* An import never removes or changes a stored record, and the number it
\* reports as inserted, when it reports one, is the number of records added
C22_NoRollback ==
    [][ImportStep =>
          /\ Len(store') >= Len(store)
          /\ SubSeq(store', 1, Len(store)) = store
          /\ response'.status \in {200, 207} =>
                response'.inserted = Len(store') - Len(store)
          /\ response'.status \notin {200, 207} => store' = store
      ]_vars

\* The five required fields of a document hold non-empty, trimmed text
NonEmptyRequired(d) ==
    \A f \in RequiredFields :
        /\ d[f].t = "string"
        /\ Len(d[f].s) > 0
        /\ Trim(d[f].s) = d[f].s

C23_CreateWitness ==
    /\ request.op = "createEntry"
    /\ request.body = BlankBody
    /\ response.status = 400
    /\ response.names = {"disease"}

-----------------------------------------------------------------------------
(* getAllEntries beside concurrent writes: its two reads of the store are    *)
(* two awaits, DiseaseData.aggregate and then DiseaseData.countDocuments     *)

\* await DiseaseData.aggregate([...]): the page is read; seen keeps the
\* collection as it was at this read
getAllEntriesAggregate(q) ==
    /\ reading.pc = "idle"
    /\ LET page == EffectivePage(q)
           limit == EffectiveLimit(q)
           built == buildCombinedQuery(GetAllParams(q))
           rows == RowsOf(Match(store, built.query))
       IN  IF built.threw
           THEN reading' = [pc |-> "done", q |-> q, status |-> 500, data |-> <<>>,
                            total |-> 0, pages |-> 0, seen |-> store]
           ELSE \E sorted \in SortResults(rows, GetAllSort(q)) :
                   reading' = [pc |-> "count", q |-> q, status |-> 0,
                               data |-> DocsOf(Limit(Skip(sorted, SkipOffset(page, limit)), limit)),
                               total |-> 0, pages |-> 0, seen |-> store]
    /\ UNCHANGED <<store, request, response, qParams, qResult, pnIn, pnOut, submissions,
                   reviews, biomarkers, articles, viewers, viewEvents>>

\* await DiseaseData.countDocuments(query), then res.json
getAllEntriesCount ==
    /\ reading.pc = "count"
    /\ LET query == buildCombinedQuery(GetAllParams(reading.q)).query
           total == Len(Match(store, query))
       IN  reading' = [reading EXCEPT !.pc = "done", !.status = 200, !.total = total,
                                      !.pages = PageCount(total, EffectiveLimit(reading.q))]
    /\ UNCHANGED <<store, request, response, qParams, qResult, pnIn, pnOut, submissions,
                   reviews, biomarkers, articles, viewers, viewEvents>>

\* The response of getAllEntries has been received
ReaderReceives ==
    /\ reading.pc = "done"
    /\ reading' = IdleReading
    /\ UNCHANGED <<store, request, response, qParams, qResult, pnIn, pnOut, submissions,
                   reviews, biomarkers, articles, viewers, viewEvents>>

\* The getAllEntries requests of the model: everything one per page; the
\* disease filter; a search value that makes buildCombinedQuery throw
ReadInputs ==
    {[page |-> pg, limit |-> lm, sortBy |-> "", sortOrder |-> "asc",
      search |-> sel.search, field |-> sel.field, filters |-> sel.filters] :
        pg \in {Undefined}, lm \in {PStr(s_1), Undefined},
        sel \in {Params(Undefined, "", NoFilters),
                 Params(Undefined, "", [NoFilters EXCEPT !["disease"] = PStr(s_sle_padded)]),
                 Params(PArr(s_array), "all", NoFilters)}}

InitRead ==
    /\ store = <<>>
    /\ request = NoRequest
    /\ response = NoResponse
    /\ qParams = NoParams
    /\ qResult = NotBuilt
    /\ pnIn = Missing
    /\ pnOut = NotNormalized
    /\ NoSubmissions
    /\ NoReading
    /\ NoBiomarkers
    /\ NoArticles

NextRead ==
    \/ \E q \in ReadInputs : getAllEntriesAggregate(q)
    \/ getAllEntriesCount
    \/ ReaderReceives
    \/ \E body \in {GoodBody, BlankBody} : createEntry(body)
    \/ \E i \in 1..MaxStore : deleteEntry(i)
    \/ \E i \in 1..MaxStore, body \in UpdateInputs : updateEntry(i, body)
    \/ ClientReceives

SpecRead == InitRead /\ [][NextRead]_vars

\* The step in which getAllEntries counts and answers
CountStep == reading.pc = "count" /\ reading'.pc = "done"

ReadQuery == buildCombinedQuery(GetAllParams(reading.q)).query

\* C24: each getAllEntries query behaves as a single logical read: under any
\* interleaving with concurrent Record writes the page it returns and the
\* total / pages it reports are taken from the same store state, i.e. total
\* equals the number of records matching the predicate in the state from which
\* the page was read.
C24_SingleLogicalRead ==
    [][CountStep =>
          /\ reading'.total = Len(Match(reading.seen, ReadQuery))
          /\ reading'.pages = PageCount(Len(Match(reading.seen, ReadQuery)),
                                        EffectiveLimit(reading.q))
      ]_vars

\* The total is the number of matching records at the time of the count, the
\* page holds matching records of the time of the aggregate, and the two
\* agree when no write came between
C24_TwoReads ==
    [][CountStep =>
          /\ reading'.total = Len(Match(store, ReadQuery))
          /\ \A i \in 1..Len(reading'.data) :
                \E j \in 1..Len(reading.seen) :
                    /\ reading.seen[j] = reading'.data[i]
                    /\ Matches(ReadQuery, reading.seen[j])
          /\ store = reading.seen => reading'.total = Len(Match(reading.seen, ReadQuery))
      ]_vars

-----------------------------------------------------------------------------
(* Reviews in turn: one reviewer, whose calls are handled one after the      *)
(* other, and every store operation succeeds                                 *)

NextReviewsInTurn ==
    \/ \E body \in SubmissionBodies : createSubmission(body, s_u1)
    \/ SubmitterReceives
    \/ \E id \in 0..MaxSubmissions : approveSubmission(s_r1, id)
    \/ approveSubmissionCreate(s_r1)
    \/ approveSubmissionSave(s_r1)
    \/ \E id \in 0..MaxSubmissions : rejectSubmission(s_r1, id)
    \/ rejectSubmissionSave(s_r1)
    \/ ReviewerReceives(s_r1)

SpecReviewsInTurn == InitSubmissions /\ [][NextReviewsInTurn]_vars

\* The records of diseaseData made from the submission sub
RecordsOf(sub) == {j \in 1..Len(store) : RecordOf(store[j], sub)}

\* C25: in any sequential (non-interleaved) sequence of approveSubmission and
\* rejectSubmission calls on one Submission, at most one Record is ever
\* materialized from that Submission.
C25_AtMostOneRecord ==
    Len(submissions) = 1 => Cardinality(RecordsOf(submissions[1])) <= 1

\* The first record of an only submission is made by an approval, and it is
\* one record
C25_FirstApproval ==
    [][(Len(submissions) = 1 /\ store = <<>> /\ store' # <<>>) =>
          /\ Len(store') = 1
          /\ RecordOf(store'[1], submissions[1])
          /\ reviews[s_r1].op = "approve"
      ]_vars

-----------------------------------------------------------------------------
(* The search term and the field selector (checked under SpecQuery) *)

\* C26: when buildCombinedQuery receives a non-blank search term, the returned
\* predicate always restricts results by that term; in particular, with the
\* field selector absent or not a recognized name, a record that contains the
\* term in none of its fields is not matched (the Ro52/SSA expansion, which
\* adds synonyms of the term, aside).
C26_SearchAlwaysRestricts ==
    (QueryBuilt /\ Present(qParams.search) /\ ~RoTrigger(Trim(qParams.search.s))) =>
        \A d \in CombineProbes :
            Matches(qResult.query, d) =>
                ContainsIn(d, Range(SearchFields), Trim(qParams.search.s))

\* The term restricts the results when field is 'all' or a field name, and is
\* dropped otherwise: the predicate is then the one built from the filters
C26_RestrictsForKnownField ==
    (QueryBuilt /\ Present(qParams.search)) =>
        /\ (HasSearchCondition(qParams) /\ ~RoTrigger(Trim(qParams.search.s))) =>
              \A d \in CombineProbes :
                  Matches(qResult.query, d) =>
                      ContainsIn(d, Range(SearchFields), Trim(qParams.search.s))
        /\ ~HasSearchCondition(qParams) =>
              qResult.query = Combine(FilterConditions(qParams))

-----------------------------------------------------------------------------
(* Articles *)

\* enum of status in articleSchema
ArticleStatuses == {"draft", "published", "archived", "under-review"}

\* An article: the fields its lifecycle and its counter depend on (title,
\* content and the other descriptive fields are always supplied and valid)
Article(status, isPublished, publishedBy) ==
    [status |-> status, isPublished |-> isPublished, isFeatured |-> FALSE,
     views |-> 0, publishedBy |-> publishedBy]

\* The place of a permanently deleted article
Gone == [status |-> "gone", isPublished |-> FALSE, isFeatured |-> FALSE,
         views |-> 0, publishedBy |-> ""]

\* The users of the article endpoints: their id and role ("" is no user)
ArticleUser(id, role) == [id |-> id, role |-> role]
Anonymous == ArticleUser("", "")

\* The second pre('save') hook of articleSchema
PreSave(doc, statusModified) ==
    [doc EXCEPT !.isPublished =
        IF doc.status # "published" THEN FALSE
        ELSE IF statusModified THEN TRUE
        ELSE doc.isPublished]

\* findById: the article of id, if there is one
Found(id) == id \in 1..Len(articles) /\ articles[id] # Gone

\* A body of createArticle: author and status ("" for absent)
ArticleBody(author, status) == [author |-> author, status |-> status]

createArticle(body, user) ==
    /\ request = NoRequest
    /\ Len(articles) < MaxArticles
    /\ request' = [op |-> "createArticle", body |-> body]
    /\ IF user.id = ""
       THEN /\ response' = Reply(401, <<>>)
            /\ UNCHANGED articles
       ELSE IF Falsy(body.author) \/ Trim(body.author.s) = <<>>
            THEN /\ response' = Reply(400, <<>>)
                 /\ UNCHANGED articles
            ELSE LET status == IF body.status = "" THEN "draft" ELSE body.status
                     articleData ==
                        IF body.status = "published"
                        THEN Article(status, TRUE, user.id)
                        ELSE Article(status, FALSE, "")
                 IN  IF status \notin ArticleStatuses
                     THEN /\ response' = Reply(400, <<>>)
                          /\ UNCHANGED articles
                     ELSE /\ articles' = Append(articles, PreSave(articleData, TRUE))
                          /\ response' = Reply(201, <<PreSave(articleData, TRUE)>>)
    /\ UNCHANGED <<store, qParams, qResult, pnIn, pnOut, submissions, reviews, reading,
                   biomarkers, viewers, viewEvents>>

\* isPublisher || isAdmin
MayChange(article, user) ==
    \/ article.publishedBy # "" /\ article.publishedBy = user.id
    \/ user.role \in {"Admin", "superAdmin"}

\* The body of updateArticle: status ("" for absent) and isPublished
\* ("absent", or "true" / "false" for the boolean sent)
ArticleUpdates(status, isPublished) == [status |-> status, isPublished |-> isPublished]

\* { $set: updates } on the stored article: no save hook runs
Updated(article, updates, user) ==
    LET publishing == updates.status = "published" /\ article.status # "published"
    IN  [article EXCEPT
            !.status = IF updates.status = "" THEN @ ELSE updates.status,
            !.isPublished = IF publishing THEN TRUE
                            ELSE IF updates.isPublished = "absent" THEN @
                            ELSE updates.isPublished = "true",
            !.publishedBy = IF publishing THEN user.id ELSE @]

updateArticle(id, updates, user) ==
    /\ request = NoRequest
    /\ request' = [op |-> "updateArticle", id |-> id, body |-> updates]
    /\ IF id = 0
       THEN /\ response' = Reply(400, <<>>)
            /\ UNCHANGED articles
       ELSE IF ~Found(id)
            THEN /\ response' = Reply(404, <<>>)
                 /\ UNCHANGED articles
            ELSE IF ~MayChange(articles[id], user)
                 THEN /\ response' = Reply(403, <<>>)
                      /\ UNCHANGED articles
                 ELSE IF updates.status # "" /\ updates.status \notin ArticleStatuses
                      THEN /\ response' = Reply(400, <<>>)
                           /\ UNCHANGED articles
                      ELSE /\ articles' = [articles EXCEPT ![id] = Updated(@, updates, user)]
                           /\ response' = Reply(200, <<Updated(articles[id], updates, user)>>)
    /\ UNCHANGED <<store, qParams, qResult, pnIn, pnOut, submissions, reviews, reading,
                   biomarkers, viewers, viewEvents>>

deleteArticle(id, permanent, user) ==
    /\ request = NoRequest
    /\ request' = [op |-> "deleteArticle", id |-> id, permanent |-> permanent]
    /\ IF id = 0
       THEN /\ response' = Reply(400, <<>>)
            /\ UNCHANGED articles
       ELSE IF ~Found(id)
            THEN /\ response' = Reply(404, <<>>)
                 /\ UNCHANGED articles
            ELSE IF ~MayChange(articles[id], user) \/ (permanent /\ user.role # "superAdmin")
                 THEN /\ response' = Reply(403, <<>>)
                      /\ UNCHANGED articles
                 ELSE IF permanent
                      THEN /\ articles' = [articles EXCEPT ![id] = Gone]
                           /\ response' = Reply(200, <<>>)
                      ELSE /\ articles' = [articles EXCEPT ![id].status = "archived"]
                           /\ response' = Reply(200, <<[articles[id] EXCEPT !.status = "archived"]>>)
    /\ UNCHANGED <<store, qParams, qResult, pnIn, pnOut, submissions, reviews, reading,
                   biomarkers, viewers, viewEvents>>

\* toggleFeatured: findById, flip isFeatured, save (status is not modified)
toggleFeatured(id) ==
    /\ request = NoRequest
    /\ request' = [op |-> "toggleFeatured", id |-> id]
    /\ IF id = 0
       THEN /\ response' = Reply(400, <<>>)
            /\ UNCHANGED articles
       ELSE IF ~Found(id)
            THEN /\ response' = Reply(404, <<>>)
                 /\ UNCHANGED articles
            ELSE LET changed == PreSave([articles[id] EXCEPT !.isFeatured = ~@], FALSE)
                 IN  /\ articles' = [articles EXCEPT ![id] = changed]
                     /\ response' = Reply(200, <<changed>>)
    /\ UNCHANGED <<store, qParams, qResult, pnIn, pnOut, submissions, reviews, reading,
                   biomarkers, viewers, viewEvents>>

\* publishArticle: findById, set status, isPublished and publishedBy, save
publishArticle(id, user) ==
    /\ request = NoRequest
    /\ request' = [op |-> "publishArticle", id |-> id]
    /\ IF id = 0
       THEN /\ response' = Reply(400, <<>>)
            /\ UNCHANGED articles
       ELSE IF ~Found(id)
            THEN /\ response' = Reply(404, <<>>)
                 /\ UNCHANGED articles
            ELSE LET changed == PreSave([articles[id] EXCEPT !.status = "published",
                                                            !.isPublished = TRUE,
                                                            !.publishedBy = user.id],
                                       articles[id].status # "published")
                 IN  /\ articles' = [articles EXCEPT ![id] = changed]
                     /\ response' = Reply(200, <<changed>>)
    /\ UNCHANGED <<store, qParams, qResult, pnIn, pnOut, submissions, reviews, reading,
                   biomarkers, viewers, viewEvents>>

(* The article requests of the model *)

s_a1 == "a1"
Writer == ArticleUser(s_u1, "user")
Admin == ArticleUser(s_a1, "superAdmin")

ArticleBodies ==
    {ArticleBody(PStr(s_abc), ""), ArticleBody(PStr(s_abc), "published"),
     ArticleBody(PStr(s_blank), "draft"), ArticleBody(PStr(s_abc), "nosuchstatus")}

UpdateBodies ==
    {ArticleUpdates("draft", "absent"), ArticleUpdates("published", "absent"),
     ArticleUpdates("", "true"), ArticleUpdates("", "false"),
     ArticleUpdates("nosuchstatus", "absent")}

InitArticles == InitRead

NextArticles ==
    \/ \E body \in ArticleBodies, user \in {Writer, Anonymous} : createArticle(body, user)
    \/ \E id \in 0..MaxArticles, updates \in UpdateBodies, user \in {Writer, Admin} :
          updateArticle(id, updates, user)
    \/ \E id \in 0..MaxArticles, permanent \in BOOLEAN, user \in {Writer, Admin} :
          deleteArticle(id, permanent, user)
    \/ \E id \in 0..MaxArticles : toggleFeatured(id)
    \/ \E id \in 0..MaxArticles : publishArticle(id, Admin)
    \/ ClientReceives

SpecArticles == InitArticles /\ [][NextArticles]_vars

\* C27: after any sequence of article operations (createArticle,
\* updateArticle, publishArticle, deleteArticle soft delete, toggleFeatured),
\* every Article satisfies isPublished = true if and only if status =
\* 'published'.
C27_PublishedIffStatus ==
    \A i \in 1..Len(articles) :
        articles[i] # Gone =>
            (articles[i].isPublished <=> articles[i].status = "published")

\* The article answered by createArticle and publishArticle, the two
\* operations that set the status and save, has isPublished true if and only
\* if its status is published
C27_HoldsAfterSave ==
    (request.op \in {"createArticle", "publishArticle"} /\ response.status \in {200, 201}) =>
        (response.data[1].isPublished <=> response.data[1].status = "published")

-----------------------------------------------------------------------------
(* The views counter: getArticleById loads the article, adds one to views    *)
(* and saves it; incrementViews uses $inc                                    *)

MaxViews == 2

\* The handler of visitor v has answered
ViewerDone(v, id, http) ==
    viewers' = [viewers EXCEPT ![v] = [IdleViewer EXCEPT !.pc = "done", !.id = id, !.http = http]]

\* getArticleById up to its await article.save(): the article is loaded;
\* views is incremented on the loaded copy if it is published
getArticleById(v, id) ==
    /\ viewers[v].pc = "idle"
    /\ id \in 1..MaxArticles => viewEvents[id] < MaxViews
    /\ IF ~Found(id)
       THEN ViewerDone(v, id, 404)
       ELSE IF articles[id].isPublished
            THEN viewers' = [viewers EXCEPT ![v] =
                                [pc |-> "save", id |-> id, views |-> articles[id].views + 1,
                                 status |-> articles[id].status, http |-> 0]]
            ELSE ViewerDone(v, id, 200)
    /\ UNCHANGED <<store, request, response, qParams, qResult, pnIn, pnOut, submissions,
                   reviews, reading, biomarkers, articles, viewEvents>>

\* await article.save(): the modified paths of the loaded copy are written,
\* views and, when the hook has cleared it, isPublished
getArticleByIdSave(v) ==
    /\ viewers[v].pc = "save"
    /\ LET id == viewers[v].id IN
       IF ~Found(id)
       THEN /\ ViewerDone(v, id, 500)
            /\ UNCHANGED <<articles, viewEvents>>
       ELSE /\ articles' = [articles EXCEPT
                               ![id].views = viewers[v].views,
                               ![id].isPublished =
                                   IF viewers[v].status # "published" THEN FALSE ELSE @]
            /\ viewEvents' = [viewEvents EXCEPT ![id] = @ + 1]
            /\ ViewerDone(v, id, 200)
    /\ UNCHANGED <<store, request, response, qParams, qResult, pnIn, pnOut, submissions,
                   reviews, reading, biomarkers>>

\* The visitor has received the response
ViewerReceives(v) ==
    /\ viewers[v].pc = "done"
    /\ viewers' = [viewers EXCEPT ![v] = IdleViewer]
    /\ UNCHANGED <<store, request, response, qParams, qResult, pnIn, pnOut, submissions,
                   reviews, reading, biomarkers, articles, viewEvents>>

\* incrementViews: findByIdAndUpdate(id, { $inc: { views: 1 } })
incrementViews(id) ==
    /\ request = NoRequest
    /\ id \in 1..MaxArticles => viewEvents[id] < MaxViews
    /\ request' = [op |-> "incrementViews", id |-> id]
    /\ IF id = 0
       THEN /\ response' = Reply(400, <<>>)
            /\ UNCHANGED <<articles, viewEvents>>
       ELSE IF ~Found(id)
            THEN /\ response' = Reply(404, <<>>)
                 /\ UNCHANGED <<articles, viewEvents>>
            ELSE /\ articles' = [articles EXCEPT ![id].views = @ + 1]
                 /\ viewEvents' = [viewEvents EXCEPT ![id] = @ + 1]
                 /\ response' = Reply(200, <<[articles[id] EXCEPT !.views = @ + 1]>>)
    /\ UNCHANGED <<store, qParams, qResult, pnIn, pnOut, submissions, reviews, reading,
                   biomarkers, viewers>>

NextViews ==
    \/ \E body \in {ArticleBody(PStr(s_abc), ""), ArticleBody(PStr(s_abc), "published")} :
          createArticle(body, Writer)
    \/ \E v \in Visitors, id \in 1..(MaxArticles + 1) : getArticleById(v, id)
    \/ \E v \in Visitors : getArticleByIdSave(v)
    \/ \E v \in Visitors : ViewerReceives(v)
    \/ \E id \in 0..MaxArticles : incrementViews(id)
    \/ ClientReceives

SpecViews == InitArticles /\ [][NextViews]_vars

\* No getArticleById on article i is between its load and its save
NoViewInProgress(i) == \A v \in Visitors : ~(viewers[v].pc = "save" /\ viewers[v].id = i)

\* C28: the views counter of a published Article counts every view event:
\* after any interleaving of n getArticleById retrievals and m incrementViews
\* calls on that Article, views has increased by exactly n + m (no increment
\* is lost when requests overlap).
C28_EveryViewCounted ==
    \A i \in 1..Len(articles) :
        (articles[i].status = "published" /\ NoViewInProgress(i)) =>
            articles[i].views = viewEvents[i]

\* views never exceeds the number of view events, and incrementViews adds
\* exactly one in a single step
C28_NoViewInvented ==
    \A i \in 1..Len(articles) : articles[i].views <= viewEvents[i]

C28_IncrementIsAtomic ==
    [][(request = NoRequest /\ request'.op = "incrementViews" /\ response'.status = 200) =>
          articles'[request'.id].views = articles[request'.id].views + 1
      ]_vars

-----------------------------------------------------------------------------
(* The order of disease names against the normalized priority of the ranked  *)
(* endpoints                                                                 *)

s_3abc == <<"3", "a", "b", "c">>

\* Records created through createEntry: two diseases, each with the kinds of
\* value a priority can hold
RankedBodies ==
    {Body(PStr(d), PStr(s_abc), Undefined, Undefined, p) :
        d \in {s_SLE, s_abc}, p \in {Undefined, PStr(s_2), PStr(s_3abc), PStr(s_x)}}

InitUniqueValues ==
    /\ store = <<>>
    /\ request = NoRequest
    /\ response = NoResponse
    /\ qParams = NoParams
    /\ qResult = NotBuilt
    /\ pnIn = Missing
    /\ pnOut = NotNormalized
    /\ NoSubmissions
    /\ NoReading
    /\ NoBiomarkers
    /\ NoArticles

NextUniqueValues ==
    \/ \E body \in RankedBodies : createEntry(body)
    \/ \E f \in {"disease", "autoantibody"} : getUniqueValues(f)
    \/ \E f \in {"disease", "autoantibody"} : getFilteredUniqueValues(f, NoFilters)
    \/ ClientReceives

SpecUniqueValues == InitUniqueValues /\ [][NextUniqueValues]_vars

\* The highest normalized priority (priorityNum) among the records of a disease
NormalizedDiseasePriority(entries, name) ==
    LET own == {i \in 1..Len(entries) :
                   /\ entries[i]["disease"].t = "string"
                   /\ ToLowerCase(Trim(entries[i]["disease"].s)) = ToLowerCase(name)}
    IN  IF own = {} THEN IntNum(0)
        ELSE PriorityNum(entries[CHOOSE i \in own :
                 \A j \in own : ~NumLess(PriorityNum(entries[i]["priority"]),
                                         PriorityNum(entries[j]["priority"]))]["priority"])

\* a must not come after b: a has the higher normalized priority, or the same
\* and the name that is first alphabetically
RankedBefore(a, b) ==
    \/ NumLess(NormalizedDiseasePriority(store, b), NormalizedDiseasePriority(store, a))
    \/ /\ NumEq(NormalizedDiseasePriority(store, a), NormalizedDiseasePriority(store, b))
       /\ LocaleLess(a, b)

\* A list of disease names has been answered
DiseaseNamesAnswered ==
    /\ request # NoRequest
    /\ request.op \in {"getUniqueValues", "getFilteredUniqueValues"}
    /\ request.field = "disease"
    /\ response.status = 200

\* The two endpoints give a stored priority the value the ranked endpoints
\* give it
SamePriority(p) == NumEq(EntryPriority(p), PriorityNum(p))

\* C29: the per-record priority that getUniqueValues and
\* getFilteredUniqueValues use equals the normalized priority of the ranked
\* retrieval endpoints for every stored priority value, a string with a
\* numeric prefix such as "3abc" included: the disease names are ordered by
\* the highest normalized priority of their records, descending, then
\* alphabetically.
C29_OrderedByNormalizedPriority ==
    DiseaseNamesAnswered =>
        /\ \A i \in 1..Len(store) : SamePriority(store[i]["priority"])
        /\ \A i, j \in 1..Len(response.data) :
              i < j => ~RankedBefore(response.data[j], response.data[i])

\* Over records whose priority is absent or a string of the form
\* -?digits(.digits)?, the names are ordered by the normalized priority
C29_OrderedForNumericStrings ==
    (DiseaseNamesAnswered /\ \A i \in 1..Len(store) : SamePriority(store[i]["priority"])) =>
        \A i, j \in 1..Len(response.data) :
            i < j => ~RankedBefore(response.data[j], response.data[i])

\* Two diseases with different numeric-string priorities have been listed
C29_NumericWitness ==
    /\ DiseaseNamesAnswered
    /\ Len(response.data) = 2
    /\ \A i \in 1..Len(store) : SamePriority(store[i]["priority"])
    /\ RankedBefore(response.data[1], response.data[2])
    /\ ~LocaleLess(response.data[1], response.data[2])

-----------------------------------------------------------------------------
(* Biomarkers: importFromFile and getAllBiomarkers of the biomarker          *)
(* controller                                                                *)

MaxBiomarkers == 3

BiomarkerMaxLimit == 500
BiomarkerDefaultLimit == 50
BiomarkerDefaultPage == 1

\* A biomarker document; createdAt is the time of its insertion, distinct for
\* every document
Biomarker(name, createdAt) == [name |-> name, createdAt |-> createdAt]

\* The rows of an uploaded file that have a non-empty cell, mapped; a row is
\* its name cell
BiomarkerEntries(rows) == SelectSeq(rows, LAMBDA r : Trim(r) # <<>>)

\* importFromFile of the biomarker controller (the file is its rows)
biomarkerImportFromFile(rows) ==
    /\ request = NoRequest
    /\ Len(biomarkers) + Len(rows) <= MaxBiomarkers
    /\ request' = [op |-> "biomarkerImportFromFile", rows |-> rows]
    /\ IF rows = <<>> \/ BiomarkerEntries(rows) = <<>>
       THEN /\ response' = Reply(400, <<>>)
            /\ UNCHANGED biomarkers
       ELSE LET entries == BiomarkerEntries(rows) IN
            /\ biomarkers' = biomarkers \o
                   [i \in 1..Len(entries) |-> Biomarker(Trim(entries[i]), Len(biomarkers) + i)]
            /\ response' = Counts(200, Len(entries), Len(rows) - Len(entries))
    /\ UNCHANGED <<store, qParams, qResult, pnIn, pnOut, submissions, reviews, reading,
                   articles, viewers, viewEvents>>

\* const { page = 1, limit = 50 } = req.query; parseInt(x, 10)
ParsedOr(p, default) == IF p.t = "undefined" THEN Number(default) ELSE ParseInt(p)

\* The page size of the skip offset
SkipPageSize(q) == Min(BiomarkerMaxLimit, Max(1, ParsedOr(q.limit, BiomarkerDefaultLimit).n))

BiomarkerSkip(q) == (Max(1, ParsedOr(q.page, BiomarkerDefaultPage).n) - 1) * SkipPageSize(q)

\* The number given to .limit()
AppliedLimit(q) == ParsedOr(q.limit, BiomarkerDefaultLimit).n

\* query: the escaped search term anywhere in a field, whatever the case
BiomarkerMatches(q) ==
    IF Truthy(q.search) /\ Trim(q.search.s) # <<>>
    THEN SelectSeq(biomarkers,
                   LAMBDA b : Includes(ToLowerCase(b.name), ToLowerCase(Trim(q.search.s))))
    ELSE biomarkers

\* sort({ createdAt: -1 })
NewestFirst(rows) == [i \in 1..Len(rows) |-> rows[Len(rows) + 1 - i]]

\* find(query).sort().skip(skip).limit(n): a limit of 0 is no limit
BiomarkerPage(q) ==
    LET rest == Skip(NewestFirst(BiomarkerMatches(q)), BiomarkerSkip(q))
    IN  IF AppliedLimit(q) = 0 THEN rest ELSE Limit(rest, AppliedLimit(q))

\* Math.ceil(total / parseInt(limit, 10)); a division by 0 gives Infinity or
\* NaN, which res.json writes as null
BiomarkerTotalPages(total, q) ==
    IF AppliedLimit(q) = 0 THEN NaN ELSE Number(CeilDiv(total, AppliedLimit(q)))

\* getAllBiomarkers for page and limit parameters that are absent or begin
\* with a digit
getAllBiomarkers(q) ==
    /\ request = NoRequest
    /\ request' = [op |-> "getAllBiomarkers", q |-> q]
    /\ response' = [Reply(200, BiomarkerPage(q))
                       EXCEPT !.page = ParsedOr(q.page, BiomarkerDefaultPage).n,
                              !.limit = AppliedLimit(q),
                              !.total = Len(BiomarkerMatches(q)),
                              !.pages = BiomarkerTotalPages(Len(BiomarkerMatches(q)), q)]
    /\ UNCHANGED <<store, qParams, qResult, pnIn, pnOut, submissions, reviews, reading,
                   biomarkers, articles, viewers, viewEvents>>

s_ab == <<"a", "b">>
s_3 == <<"3">>
s_1000 == <<"1", "0", "0", "0">>

BiomarkerFiles == {<<>>, <<s_blank>>, <<s_ab>>, <<s_x, s_blank>>, <<s_abc_padded, s_x>>}

BiomarkerQueries ==
    {[page |-> pg, limit |-> lm, search |-> se] :
        pg \in {Undefined, PStr(s_1), PStr(s_2), PStr(s_3), PStr(s_0)},
        lm \in {Undefined, PStr(s_1), PStr(s_2), PStr(s_0), PStr(s_1000)},
        se \in {Undefined, PStr(s_ab), PStr(s_blank)}}

InitBiomarkers == InitArticles

NextBiomarkers ==
    \/ \E rows \in BiomarkerFiles : biomarkerImportFromFile(rows)
    \/ \E q \in BiomarkerQueries : getAllBiomarkers(q)
    \/ ClientReceives

SpecBiomarkers == InitBiomarkers /\ [][NextBiomarkers]_vars

\* getAllBiomarkers has answered
BiomarkersAnswered == request # NoRequest /\ request.op = "getAllBiomarkers"

\* The answers to the requests for pages 1..n with the limit and search of q,
\* one after the other
RECURSIVE PagesUpTo(_, _)
PagesUpTo(q, n) ==
    IF n = 0 THEN <<>>
    ELSE PagesUpTo(q, n - 1) \o BiomarkerPage([q EXCEPT !.page = PStr(<<Digits[n + 1]>>)])

\* C30: in getAllBiomarkers, for every page and limit, the page size of the
\* skip offset, the page size applied as the result limit and the page size
\* of totalPages are the same value, so that the pages 1..totalPages hold
\* every matching biomarker exactly once.
C30_OnePageSize ==
    BiomarkersAnswered =>
        /\ SkipPageSize(request.q) = AppliedLimit(request.q)
        /\ ~response.pages.nan
        /\ PagesUpTo(request.q, response.pages.n) = NewestFirst(BiomarkerMatches(request.q))

\* For a limit from 1 to 500 (absent included) the three page sizes are one
\* value and the pages 1..totalPages partition the matches
C30_OnePageSizeWithinCeiling ==
    (BiomarkersAnswered /\ AppliedLimit(request.q) \in 1..BiomarkerMaxLimit) =>
        /\ SkipPageSize(request.q) = AppliedLimit(request.q)
        /\ ~response.pages.nan
        /\ PagesUpTo(request.q, response.pages.n) = NewestFirst(BiomarkerMatches(request.q))

\* The third page of size 1 over three biomarkers has been answered
C30_Witness ==
    /\ BiomarkersAnswered
    /\ AppliedLimit(request.q) = 1
    /\ response.pages = Number(3)
    /\ response.page = 3
    /\ response.data = <<biomarkers[1]>>

=============================================================================
